---- MODULE Spec2Model ----
(***************************************************************************)
(* Verification model of the claude-mem worker core:                       *)
(*   - LMStudioAgent (src/src/services/worker/LMStudioAgent.ts):           *)
(*     history truncation, the LLM request, startSession                   *)
(*   - the generator dedup guard and abort-controller replacement of       *)
(*     SessionRoutes, as mirrored in tests/infrastructure                  *)
(*   - the subprocess supervisor: ObserverRegistry and ObserverReaper      *)
(*     (src/src/services/infrastructure)                                   *)
(*   - the vector backends: ChromaBackend and SqliteVecBackend             *)
(*     (src/src/services/vector): granulation, sync and backfill           *)
(***************************************************************************)
EXTENDS Integers, Sequences, FiniteSets, TLC

VARIABLES
    \* ---- truncation harness (LMStudioAgent.truncateHistory / queryLMStudio)
    tHistory,       \* the ConversationMessage[] given to queryLMStudio
    maxCtxSetting,    \* settings.CLAUDE_MEM_OPENROUTER_MAX_CONTEXT_MESSAGES (parsed, <<>> = NaN)
    maxTokSetting,    \* settings.CLAUDE_MEM_OPENROUTER_MAX_TOKENS (parsed, <<>> = NaN)
    tSent,          \* body.messages of the last request
    tQueried        \* TRUE once queryLMStudio has built a request from tHistory

truncVars == <<tHistory, maxCtxSetting, maxTokSetting, tSent, tQueried>>

VARIABLES
    \* ---- generator guard (SessionRoutes, as mirrored by the infrastructure tests)
    generatorPromise,   \* session -> 0 (null) or the id of the generator in the slot
    spawnCount,         \* session -> number of generators started
    currentProvider,    \* session -> "null" or "claude"
    abortController,    \* session -> [id, aborted]
    genRunning,         \* session -> set of generators whose promise has not settled
    lastGen,            \* session -> the generator started last (id 0: none yet)
    lastExit,           \* session -> how the generator that settled last ended
    calls,              \* session -> ensure-generator calls made so far
    burstCalls,         \* session -> ensure-generator calls since the last completion
    completions         \* session -> number of generators that have settled

guardVars == <<generatorPromise, spawnCount, currentProvider, abortController,
               genRunning, lastGen, lastExit, calls, burstCalls, completions>>

VARIABLES
    \* ---- LMStudioAgent.startSession on one session
    pc,                  \* where startSession is suspended ("idle": not running)
    conversationHistory, \* session.conversationHistory
    memorySessionId,     \* session.memorySessionId ("null" when unset)
    dbMemorySessionId,   \* the value persisted by updateMemorySessionId
    updateCalls,         \* number of updateMemorySessionId calls
    lastPromptNumber,    \* session.lastPromptNumber
    fallbackAgent,       \* TRUE when setFallbackAgent was called
    pending,             \* pending messages of the session, in enqueue order
    enqueued,            \* number of messages enqueued so far
    consumed,            \* ids taken from the message iterator, in order
    processed,           \* ids whose processAgentResponse call has completed
    failed,              \* ids whose turn ended in an error
    current,             \* the message being handled (id 0: none)
    sent,                \* body.messages of the last LLM request
    processCalls,        \* processAgentResponse calls: message id and the id seen
    runs,                \* number of startSession runs started
    outcome,             \* "none", "pending", "resolved" or "rejected"
    thrown,              \* the error startSession rejected with
    caught,              \* the error that reached the catch block of this run
    fallbackCalls,       \* fallbackAgent.startSession calls made by this run
    fallbackArg,         \* the session handed to the fallback agent
    fallbackOutcome,     \* how the fallback run settled
    atStart              \* session fields when this run began

agentVars == <<pc, conversationHistory, memorySessionId, dbMemorySessionId,
               updateCalls, lastPromptNumber, fallbackAgent, pending, enqueued,
               consumed, processed, failed, current, sent, processCalls, runs,
               outcome, thrown, caught, fallbackCalls, fallbackArg,
               fallbackOutcome, atStart>>

VARIABLES
    registry,       \* ObserverRegistry.registry: Map sessionDbId -> Set of pids
    alive,          \* the pids of the OS process table
    signals,        \* per running process, the signals delivered to it
    killing,        \* killSessionObservers calls waiting in their poll loop
    killAllState,   \* the killAll call: its position and what it started from
    interval,       \* ObserverReaper.interval: TRUE while a timer handle is held
    timers,         \* number of active setInterval timers
    reapState,      \* the reap cycle in flight and what it started from
    lastCall,       \* the call of the supervisor that returned last
    registrations   \* number of registerObservers calls made

registryVars == <<registry, alive, signals, killing, killAllState, interval,
                  timers, reapState, lastCall, registrations>>

VARIABLES
    vBackend,       \* the backend in use: "chroma" or "sqlite-vec"
    providerUp,     \* the embedding provider / the Chroma connection answers
    storeRows,      \* the observations table of the Store, ORDER BY id ASC
    vectorDocs,     \* the documents held by the vector store
    syncFailed,     \* ids of the observations whose syncObservation rejected
    backfill,       \* the ensureBackfilled run in flight
    lastBackfill    \* how the ensureBackfilled run that ended last ended

vectorVars == <<vBackend, providerUp, storeRows, vectorDocs, syncFailed,
                backfill, lastBackfill>>

VARIABLES
    granInput,      \* the Store row handed to the granulation
    granDocs,       \* the vector documents it was split into
    granDone        \* TRUE once the row has been split

granVars == <<granInput, granDocs, granDone>>

VARIABLES
    collBackend,    \* the backend a worker syncs to and queries
    collection,     \* the documents of its vector store, with their metadata
    lastVector      \* the sync or query call that returned last

collVars == <<collBackend, collection, lastVector>>

VARIABLES
    migInput,       \* the external records and options a caller migrates
    sdk_sessions,   \* Store: memory_session_id of every sdk_sessions row
    observations,   \* Store: the observations table, in insertion order
    clock,          \* what Date.now() returns
    migCalls,       \* migrateRecord and migrateBatch calls made so far
    migResult       \* what the last of these calls returned

migVars == <<migInput, sdk_sessions, observations, clock, migCalls, migResult>>

VARIABLES
    autoPush,         \* GitLfsSync: the auto-push setting
    idlePushSeconds,  \* GitLfsSync: the idle time before an auto-push
    pendingChanges,   \* GitLfsSync: the pending-changes flag
    worktreeDirty,    \* the export repository has uncommitted changes
    lastCompleted,    \* the export or commit that completed last
    nowMs,            \* what Date.now() returns to GitLfsSync
    lastSync,         \* the GitLfsSync call that returned last
    hookRun           \* the hook process that exited last

cliVars == <<autoPush, idlePushSeconds, pendingChanges, worktreeDirty,
             lastCompleted, nowMs, lastSync, hookRun>>

VARIABLES
    fedInput,       \* the position, strategy and remote count a caller asks about
    fedResult       \* what the federation function called last returned

fedVars == <<fedInput, fedResult>>

vars == <<truncVars, guardVars, agentVars, registryVars, vectorVars,
          granVars, collVars, migVars, cliVars, fedVars>>

\* each part of the worker leaves the state of the other parts alone
TruncFrame == UNCHANGED <<guardVars, agentVars, registryVars, vectorVars,
                          granVars, collVars, migVars, cliVars, fedVars>>
GuardFrame == UNCHANGED <<truncVars, agentVars, registryVars, vectorVars,
                          granVars, collVars, migVars, cliVars, fedVars>>
AgentFrame == UNCHANGED <<truncVars, guardVars, registryVars, vectorVars,
                          granVars, collVars, migVars, cliVars, fedVars>>
RegistryFrame == UNCHANGED <<truncVars, guardVars, agentVars, vectorVars,
                             granVars, collVars, migVars, cliVars, fedVars>>
VectorFrame == UNCHANGED <<truncVars, guardVars, agentVars, registryVars,
                           granVars, collVars, migVars, cliVars, fedVars>>
GranFrame == UNCHANGED <<truncVars, guardVars, agentVars, registryVars,
                         vectorVars, collVars, migVars, cliVars, fedVars>>
CollFrame == UNCHANGED <<truncVars, guardVars, agentVars, registryVars,
                         vectorVars, granVars, migVars, cliVars, fedVars>>
MigFrame == UNCHANGED <<truncVars, guardVars, agentVars, registryVars,
                        vectorVars, granVars, collVars, cliVars, fedVars>>
CliFrame == UNCHANGED <<truncVars, guardVars, agentVars, registryVars,
                        vectorVars, granVars, collVars, migVars, fedVars>>
FedFrame == UNCHANGED <<truncVars, guardVars, agentVars, registryVars,
                        vectorVars, granVars, collVars, migVars, cliVars>>

(***************************************************************************)
(* Bounds of the model                                                     *)
(***************************************************************************)
MaxHist == 7
MaxCalls == 4
MaxRuns == 2
MaxMsgs == 2
MaxRegs == 2
MaxKills == 2
MaxTimers == 2
MaxRows == 2
MaxFacts == 2
MaxBackfills == 2
\* documents per addDocuments call of a backfill run: BATCH_SIZE, which is
\* 100 in ChromaBackend and 50 in SqliteVecBackend, scaled down with the
\* rows so that a batch boundary can fall inside one row's documents
MaxBatch == 2
MaxDocs == 2
MaxExternals == 2
MaxMigrations == 2
MaxClock == 2
MaxIdleSeconds == 1
MaxHalfSeconds == 3
MaxExitCode == 2
MaxPosition == 5
MaxRemoteCount == 5

(***************************************************************************)
(* Program constants                                                       *)
(***************************************************************************)
DEFAULT_MAX_CONTEXT_MESSAGES == 20
DEFAULT_MAX_ESTIMATED_TOKENS == 100000
CHARS_PER_TOKEN_ESTIMATE == 4

RECURSIVE SumTokens(_, _)
RECURSIVE KeepFromEnd(_, _, _, _, _, _)

(***************************************************************************)
(* LMStudioAgent.estimateTokens: Math.ceil(text.length / 4)                *)
(***************************************************************************)
estimateTokens(text) ==
    (Len(text) + CHARS_PER_TOKEN_ESTIMATE - 1) \div CHARS_PER_TOKEN_ESTIMATE

\* history.reduce((sum, m) => sum + this.estimateTokens(m.content), 0) over h[1..n]
SumTokens(h, n) ==
    IF n = 0 THEN 0 ELSE SumTokens(h, n - 1) + estimateTokens(h[n].content)

\* parseInt(setting) || DEFAULT: NaN (<<>>) and 0 are falsy and give the default
OrDefault(setting, dflt) ==
    IF Len(setting) = 0 \/ setting[1] = 0 THEN dflt ELSE setting[1]

MAX_CONTEXT_MESSAGES(ctxSetting) == OrDefault(ctxSetting, DEFAULT_MAX_CONTEXT_MESSAGES)
MAX_ESTIMATED_TOKENS(tokSetting) == OrDefault(tokSetting, DEFAULT_MAX_ESTIMATED_TOKENS)

(***************************************************************************)
(* The loop of truncateHistory (lines 280-297): walks i from the end of    *)
(* the history down to startIndex, unshifting h[i] onto truncated until    *)
(* the message budget or the token budget would be exceeded.               *)
(***************************************************************************)
KeepFromEnd(h, i, startIndex, truncated, tokenCount, lim) ==
    IF i < startIndex THEN truncated
    ELSE
        LET msgTokens == estimateTokens(h[i].content) IN
        IF Len(truncated) >= lim.maxNonSystem \/ tokenCount + msgTokens > lim.maxTokens
        THEN truncated
        ELSE KeepFromEnd(h, i - 1, startIndex, <<h[i]>> \o truncated,
                         tokenCount + msgTokens, lim)

\* a plausible slip: the system message is counted against the token budget
\* but dropped from the output
truncateHistoryDropSystem(h, ctxSetting, tokSetting) ==
    LET maxCtx == MAX_CONTEXT_MESSAGES(ctxSetting)
        maxTok == MAX_ESTIMATED_TOKENS(tokSetting)
    IN  IF Len(h) <= maxCtx /\ SumTokens(h, Len(h)) <= maxTok THEN h
        ELSE KeepFromEnd(h, Len(h), 1, <<>>, 0,
                         [maxNonSystem |-> maxCtx, maxTokens |-> maxTok])

\* a plausible slip: the token budget is not enforced in the loop
truncateHistoryNoTokenCap(h, ctxSetting, tokSetting) ==
    LET maxCtx == MAX_CONTEXT_MESSAGES(ctxSetting)
        maxTok == MAX_ESTIMATED_TOKENS(tokSetting)
        hasSys == Len(h) > 0 /\ h[1].role = "system"
        startIndex == IF hasSys THEN 2 ELSE 1
        kept == KeepFromEnd(h, Len(h), startIndex, <<>>, 0,
                    [maxNonSystem |-> maxCtx - (IF hasSys THEN 1 ELSE 0),
                     maxTokens |-> maxTok + SumTokens(h, Len(h))])
    IN  IF Len(h) <= maxCtx /\ SumTokens(h, Len(h)) <= maxTok THEN h
        ELSE IF hasSys THEN <<h[1]>> \o kept ELSE kept

\* a plausible slip: the loop stops one message early
truncateHistoryOneShort(h, ctxSetting, tokSetting) ==
    LET maxCtx == MAX_CONTEXT_MESSAGES(ctxSetting)
        maxTok == MAX_ESTIMATED_TOKENS(tokSetting)
        hasSys == Len(h) > 0 /\ h[1].role = "system"
        startIndex == IF hasSys THEN 2 ELSE 1
        kept == KeepFromEnd(h, Len(h), startIndex, <<>>,
                    IF hasSys THEN estimateTokens(h[1].content) ELSE 0,
                    [maxNonSystem |-> maxCtx - (IF hasSys THEN 1 ELSE 0),
                     maxTokens |-> maxTok])
        short == IF kept = <<>> THEN kept ELSE Tail(kept)
    IN  IF Len(h) <= maxCtx /\ SumTokens(h, Len(h)) <= maxTok THEN h
        ELSE IF hasSys THEN <<h[1]>> \o short ELSE short

(***************************************************************************)
(* LMStudioAgent.truncateHistory (lines 255-305)                           *)
(***************************************************************************)
truncateHistory(h, ctxSetting, tokSetting) ==
    LET maxCtx == MAX_CONTEXT_MESSAGES(ctxSetting)
        maxTok == MAX_ESTIMATED_TOKENS(tokSetting)
        hasSys == Len(h) > 0 /\ h[1].role = "system"
        startIndex == IF hasSys THEN 2 ELSE 1
        kept == KeepFromEnd(h, Len(h), startIndex, <<>>,
                    IF hasSys THEN estimateTokens(h[1].content) ELSE 0,
                    [maxNonSystem |-> maxCtx - (IF hasSys THEN 1 ELSE 0),
                     maxTokens |-> maxTok])
    IN  IF Len(h) <= maxCtx /\ SumTokens(h, Len(h)) <= maxTok THEN h
        ELSE IF hasSys THEN <<h[1]>> \o kept ELSE kept

(***************************************************************************)
(* LMStudioAgent.conversationToOpenAIMessages (lines 307-312)              *)
(***************************************************************************)
conversationToOpenAIMessages(h) ==
    [i \in 1..Len(h) |->
        [role |-> IF h[i].role = "assistant" THEN "assistant"
                  ELSE IF h[i].role = "system" THEN "system" ELSE "user",
         content |-> h[i].content]]

(***************************************************************************)
(* Truncation harness: histories and cap settings drawn from small sets    *)
(***************************************************************************)
TruncMessages ==
    { [role |-> "system", content |-> "abcde"],
      [role |-> "user", content |-> "abcd"],
      [role |-> "assistant", content |-> "abcde"] }

\* parsed setting values: <<>> is NaN (unset or not a number)
CtxSettings == { <<>>, <<-1>>, <<1>>, <<2>>, <<3>> }
TokSettings == { <<0>>, <<-1>>, <<1>>, <<2>>, <<3>> }

TruncStart ==
    /\ tHistory = <<>>
    /\ maxCtxSetting \in CtxSettings
    /\ maxTokSetting \in TokSettings
    /\ tSent = <<>>
    /\ tQueried = FALSE

\* a caller pushes one more message onto the conversation history
TruncPush ==
    /\ Len(tHistory) < MaxHist
    /\ \E m \in TruncMessages : tHistory' = Append(tHistory, m)
    /\ tSent' = <<>>
    /\ tQueried' = FALSE
    /\ UNCHANGED <<maxCtxSetting, maxTokSetting>>
    /\ TruncFrame

\* queryLMStudio lines 322-323: truncate, convert, send
TruncQuery ==
    /\ ~tQueried
    /\ tSent' = conversationToOpenAIMessages(
                    truncateHistory(tHistory, maxCtxSetting, maxTokSetting))
    /\ tQueried' = TRUE
    /\ UNCHANGED <<tHistory, maxCtxSetting, maxTokSetting>>
    /\ TruncFrame

(***************************************************************************)
(* Generator guard: startGenerator(session, hasPendingWork) and its        *)
(* .finally() handler (tests/infrastructure/child-process-linux.test.ts    *)
(* 189-215; the same guard in session-dedup.test.ts 30-45 and in           *)
(* ensureGeneratorRunning 87-98)                                           *)
(***************************************************************************)
Sessions == {1, 2}

GuardStart ==
    /\ generatorPromise = [s \in Sessions |-> 0]
    /\ spawnCount = [s \in Sessions |-> 0]
    /\ currentProvider = [s \in Sessions |-> "null"]
    /\ abortController = [s \in Sessions |-> [id |-> 0, aborted |-> FALSE]]
    /\ genRunning = [s \in Sessions |-> {}]
    /\ lastGen = [s \in Sessions |-> [id |-> 0, hasPendingWork |-> FALSE, bornAborted |-> FALSE]]
    /\ lastExit = [s \in Sessions |-> "none"]
    /\ calls = [s \in Sessions |-> 0]
    /\ burstCalls = [s \in Sessions |-> 0]
    /\ completions = [s \in Sessions |-> 0]

\* a guard that never blocks
GuardBlocksNever(slot) == FALSE

\* if (session.generatorPromise) return;
GuardBlocks(slot) == slot # 0

\* the old handler: abort but do not replace
FinallyControllerAbortOnly(ctrl, hasPendingWork) ==
    IF ~ctrl.aborted /\ ~hasPendingWork
    THEN [ctrl EXCEPT !.aborted = TRUE]
    ELSE ctrl

\* .finally(): if (!wasAborted) { if (!hasPendingWork) { abort(); new AbortController() } }
FinallyController(ctrl, hasPendingWork) ==
    IF ~ctrl.aborted /\ ~hasPendingWork
    THEN [id |-> ctrl.id + 1, aborted |-> FALSE]
    ELSE ctrl

\* a handler that leaves the slot as it is
FinallySlotKept(slot) == slot

\* .finally(): session.generatorPromise = null
FinallySlot(slot) == 0

\* a handler that leaves the provider as it is
FinallyProviderKept(provider) == provider

\* .finally(): session.currentProvider = null
FinallyProvider(provider) == "null"

\* one call of startGenerator / ensureGeneratorRunning / startGeneratorWithGuard
StartGenerator(s, hasPendingWork) ==
    /\ calls[s] < MaxCalls
    /\ calls' = [calls EXCEPT ![s] = @ + 1]
    /\ burstCalls' = [burstCalls EXCEPT ![s] = @ + 1]
    /\ IF GuardBlocks(generatorPromise[s])
       THEN UNCHANGED <<generatorPromise, spawnCount, currentProvider, genRunning, lastGen>>
       ELSE LET g == [id |-> spawnCount[s] + 1,
                      hasPendingWork |-> hasPendingWork,
                      \* the executor checks signal.aborted and resolves at once
                      bornAborted |-> abortController[s].aborted]
            IN  /\ spawnCount' = [spawnCount EXCEPT ![s] = @ + 1]
                /\ currentProvider' = [currentProvider EXCEPT ![s] = "claude"]
                /\ generatorPromise' = [generatorPromise EXCEPT ![s] = g.id]
                /\ genRunning' = [genRunning EXCEPT ![s] = @ \cup {g}]
                /\ lastGen' = [lastGen EXCEPT ![s] = g]
    /\ UNCHANGED <<abortController, lastExit, completions>>
    /\ GuardFrame

\* the generator's promise settles, fulfilled or rejected, and its .finally()
\* handler runs
GeneratorSettles(s, rejected) ==
    \E g \in genRunning[s] :
        LET wasAborted == abortController[s].aborted IN
        /\ genRunning' = [genRunning EXCEPT ![s] = @ \ {g}]
        /\ generatorPromise' = [generatorPromise EXCEPT ![s] = FinallySlot(@)]
        /\ currentProvider' = [currentProvider EXCEPT ![s] = FinallyProvider(@)]
        /\ abortController' = [abortController EXCEPT
                                  ![s] = FinallyController(@, g.hasPendingWork)]
        /\ lastExit' = [lastExit EXCEPT ![s] =
                            IF wasAborted THEN "aborted"
                            ELSE IF rejected THEN "failed"
                            ELSE IF g.hasPendingWork THEN "pending" ELSE "natural"]
        /\ completions' = [completions EXCEPT ![s] = @ + 1]
        /\ burstCalls' = [burstCalls EXCEPT ![s] = 0]
        /\ UNCHANGED <<spawnCount, lastGen, calls>>
    /\ GuardFrame

\* the session is cancelled while its generator is in flight
CancelSession(s) ==
    /\ genRunning[s] # {}
    /\ ~abortController[s].aborted
    /\ abortController' = [abortController EXCEPT ![s].aborted = TRUE]
    /\ UNCHANGED <<generatorPromise, spawnCount, currentProvider, genRunning,
                   lastGen, lastExit, calls, burstCalls, completions>>
    /\ GuardFrame

GuardNext ==
    \/ \E s \in Sessions, hasPendingWork \in BOOLEAN : StartGenerator(s, hasPendingWork)
    \/ \E s \in Sessions, rejected \in BOOLEAN : GeneratorSettles(s, rejected)
    \/ \E s \in Sessions : CancelSession(s)

(***************************************************************************)
(* LMStudioAgent.startSession (lines 84-249) and queryLMStudio (317-379)   *)
(***************************************************************************)
contentSessionId == "test-session"
NoError == [kind |-> "none", message |-> ""]
NoMessage == [id |-> 0, type |-> "none", prompt_number |-> 0]
NoSession == [sessionDbId |-> "none", conversationHistory |-> <<>>]

\* the pending messages the hooks produce: observations carry the prompt
\* number of their turn, a summarize message closes the turn
MessageKinds ==
    { [type |-> "observation", prompt_number |-> 1],
      [type |-> "observation", prompt_number |-> 2],
      [type |-> "summarize", prompt_number |-> 0] }

\* what the provider does with one request
Responses == {"content", "empty", "http400", "econnrefused", "etimedout"}

\* queryLMStudio after the fetch settled (lines 333-378): the returned
\* content, or the error thrown
QueryResult(kind) ==
    CASE kind = "content" -> [ok |-> TRUE, content |-> "<observation/>", error |-> NoError]
      [] kind = "empty" -> [ok |-> TRUE, content |-> "", error |-> NoError]
      [] kind = "http400" ->
            [ok |-> FALSE, content |-> "",
             error |-> [kind |-> "http",
                        message |-> "LM Studio API error: " \o ToString(400)
                                    \o " - " \o "Invalid argument"]]
      [] kind = "econnrefused" ->
            [ok |-> FALSE, content |-> "",
             error |-> [kind |-> "connect", message |-> "fetch failed"]]
      [] kind = "etimedout" ->
            [ok |-> FALSE, content |-> "",
             error |-> [kind |-> "connect", message |-> "connect ETIMEDOUT 127.0.0.1:1234"]]

AbortError == [kind |-> "abort", message |-> "The operation was aborted"]
FallbackFailure == [kind |-> "fallback", message |-> "fallback agent failed"]

\* agents/index.js, classification of errors (after the specification, section 7)
isAbortError(err) == err.kind = "abort"
shouldFallbackToClaude(err) == err.kind = "connect"

\* a catch block that hands every error to the fallback agent
CatchDecisionAlwaysFallback(err, hasFallback) ==
    IF isAbortError(err) THEN "rethrow"
    ELSE IF hasFallback THEN "fallback" ELSE "throw"

\* a catch block that never hands off
CatchDecisionNeverFallback(err, hasFallback) ==
    IF isAbortError(err) THEN "rethrow" ELSE "throw"

\* a catch block without the isAbortError test
CatchDecisionAbortFallsBack(err, hasFallback) ==
    IF hasFallback /\ (shouldFallbackToClaude(err) \/ isAbortError(err))
    THEN "fallback"
    ELSE "throw"

\* the catch block of startSession (lines 230-248)
CatchDecision(err, hasFallback) ==
    IF isAbortError(err) THEN "rethrow"
    ELSE IF shouldFallbackToClaude(err) /\ hasFallback THEN "fallback"
    ELSE "throw"

\* an id synthesized on every run
NeedsSyntheticIdAlways(memId) == TRUE

\* if (!session.memorySessionId)   (line 104)
NeedsSyntheticId(memId) == memId = "null"

\* a loop that pulls the next message without awaiting the current turn
AtIteratorEager(p) == p \in {"loop", "msgProcess"}

\* the for-await loop asks the iterator for the next message only after the
\* body of the previous iteration has completed (lines 144-219)
AtIterator(p) == p = "loop"

\* the request queryLMStudio builds from the history (lines 322-323)
RequestMessages(history) ==
    conversationToOpenAIMessages(truncateHistory(history, maxCtxSetting, maxTokSetting))

AgentStart ==
    /\ pc = "idle"
    \* a fresh session, or one continued with prior context
    /\ \/ conversationHistory = <<>> /\ lastPromptNumber = 1
       \/ /\ conversationHistory = <<[role |-> "user", content |-> "prev context"],
                                     [role |-> "assistant", content |-> "prev response"]>>
          /\ lastPromptNumber = 2
    /\ memorySessionId \in {"null", "existing-id"}
    /\ dbMemorySessionId = memorySessionId
    /\ updateCalls = 0
    /\ fallbackAgent \in BOOLEAN
    /\ pending = <<>>
    /\ enqueued = 0
    /\ consumed = <<>>
    /\ processed = <<>>
    /\ failed = {}
    /\ current = NoMessage
    /\ sent = <<>>
    /\ processCalls = {}
    /\ runs = 0
    /\ outcome = "none"
    /\ thrown = NoError
    /\ caught = NoError
    /\ fallbackCalls = 0
    /\ fallbackArg = NoSession
    /\ fallbackOutcome = "none"
    /\ atStart = [conversationHistory |-> <<>>, memorySessionId |-> "null", updateCalls |-> 0]

\* the session manager enqueues a pending message
Enqueue(type, pn) ==
    /\ enqueued < MaxMsgs
    /\ enqueued' = enqueued + 1
    /\ pending' = Append(pending, [id |-> enqueued + 1, type |-> type, prompt_number |-> pn])
    /\ UNCHANGED <<pc, conversationHistory, memorySessionId, dbMemorySessionId,
                   updateCalls, lastPromptNumber, fallbackAgent, consumed, processed,
                   failed, current, sent, processCalls, runs, outcome, thrown, caught,
                   fallbackCalls, fallbackArg, fallbackOutcome, atStart>>
    /\ AgentFrame

\* lines 86-99: build the init or continuation prompt, push it with role
\* system, and send the first request
StartSession ==
    /\ pc = "idle"
    /\ runs < MaxRuns
    /\ LET initPrompt == IF lastPromptNumber = 1 THEN "init prompt"
                         ELSE "continuation prompt"
           history == Append(conversationHistory, [role |-> "system", content |-> initPrompt])
       IN  /\ conversationHistory' = history
           /\ sent' = RequestMessages(history)
    /\ pc' = "initQuery"
    /\ runs' = runs + 1
    /\ outcome' = "pending"
    /\ thrown' = NoError
    /\ caught' = NoError
    /\ fallbackCalls' = 0
    /\ fallbackArg' = NoSession
    /\ fallbackOutcome' = "none"
    /\ current' = NoMessage
    /\ atStart' = [conversationHistory |-> conversationHistory,
                   memorySessionId |-> memorySessionId,
                   updateCalls |-> updateCalls]
    /\ UNCHANGED <<memorySessionId, dbMemorySessionId, updateCalls, lastPromptNumber,
                   fallbackAgent, pending, enqueued, consumed, processed, failed,
                   processCalls>>
    /\ AgentFrame

\* a catch block that logs the error and lets the loop go on
CatchSwallow(err) ==
    /\ caught' = err
    /\ failed' = IF current.id # 0 THEN failed \cup {current.id} ELSE failed
    /\ pc' = "loop"
    /\ UNCHANGED <<outcome, thrown, fallbackCalls, fallbackArg>>

\* the catch block (lines 230-248) reached with error err
Catch(err) ==
    /\ caught' = err
    /\ failed' = IF current.id # 0 /\ current.id \notin failed
                 THEN failed \cup {current.id} ELSE failed
    /\ LET d == CatchDecision(err, fallbackAgent) IN
       IF d = "fallback"
       THEN /\ pc' = "fallback"
            /\ fallbackCalls' = fallbackCalls + 1
            /\ fallbackArg' = [sessionDbId |-> "session-1",
                               conversationHistory |-> conversationHistory]
            /\ UNCHANGED <<outcome, thrown>>
       ELSE /\ pc' = "idle"
            /\ outcome' = "rejected"
            /\ thrown' = err
            /\ UNCHANGED <<fallbackCalls, fallbackArg>>

\* the init request settles (lines 99-138)
InitResponse(kind) ==
    /\ pc = "initQuery"
    /\ LET r == QueryResult(kind) IN
       IF ~r.ok
       THEN /\ Catch(r.error)
            /\ UNCHANGED <<conversationHistory, memorySessionId, dbMemorySessionId,
                           updateCalls, processCalls>>
       ELSE /\ UNCHANGED <<caught, failed, outcome, thrown, fallbackCalls, fallbackArg>>
            /\ IF r.content # ""
               THEN LET synth == NeedsSyntheticId(memorySessionId)
                        memId == IF synth THEN "lmstudio-" \o contentSessionId
                                 ELSE memorySessionId
                    IN  /\ memorySessionId' = memId
                        /\ dbMemorySessionId' = IF synth THEN memId ELSE dbMemorySessionId
                        /\ updateCalls' = IF synth THEN updateCalls + 1 ELSE updateCalls
                        /\ conversationHistory' =
                              Append(conversationHistory,
                                     [role |-> "assistant", content |-> r.content])
                        /\ processCalls' = processCalls \cup
                              {[message |-> 0, memorySessionId |-> memId]}
                        /\ pc' = "initProcess"
               ELSE /\ pc' = "loop"
                    /\ UNCHANGED <<conversationHistory, memorySessionId,
                                   dbMemorySessionId, updateCalls, processCalls>>
    /\ UNCHANGED <<lastPromptNumber, fallbackAgent, pending, enqueued, consumed,
                   processed, current, sent, runs, fallbackOutcome, atStart>>
    /\ AgentFrame

\* processAgentResponse returns (awaited at lines 122, 175 and 207)
ProcessDone ==
    /\ pc \in {"initProcess", "msgProcess"}
    /\ processed' = IF pc = "msgProcess" THEN Append(processed, current.id) ELSE processed
    /\ current' = NoMessage
    /\ pc' = "loop"
    /\ UNCHANGED <<conversationHistory, memorySessionId, dbMemorySessionId,
                   updateCalls, lastPromptNumber, fallbackAgent, pending, enqueued,
                   consumed, failed, sent, processCalls, runs, outcome, thrown,
                   caught, fallbackCalls, fallbackArg, fallbackOutcome, atStart>>
    /\ AgentFrame

\* the iterator yields the next pending message; the loop body runs up to
\* its request (lines 144-165 and 187-197)
NextMessage ==
    /\ AtIterator(pc)
    /\ pending # <<>>
    /\ LET message == Head(pending)
           prompt == IF message.type = "observation" THEN "obs prompt"
                     ELSE "summary prompt"
           history == Append(conversationHistory, [role |-> "user", content |-> prompt])
       IN  /\ current' = message
           /\ pending' = Tail(pending)
           /\ consumed' = Append(consumed, message.id)
           /\ lastPromptNumber' = IF message.type = "observation"
                                  THEN message.prompt_number ELSE lastPromptNumber
           /\ conversationHistory' = history
           /\ sent' = RequestMessages(history)
    /\ pc' = "msgQuery"
    /\ UNCHANGED <<memorySessionId, dbMemorySessionId, updateCalls, fallbackAgent,
                   enqueued, processed, failed, processCalls, runs, outcome, thrown,
                   caught, fallbackCalls, fallbackArg, fallbackOutcome, atStart>>
    /\ AgentFrame

\* the request of the current message settles (lines 165-185 and 197-217)
MessageResponse(kind) ==
    /\ pc = "msgQuery"
    /\ LET r == QueryResult(kind) IN
       IF ~r.ok
       THEN /\ Catch(r.error)
            /\ UNCHANGED <<conversationHistory, processCalls>>
       ELSE /\ UNCHANGED <<caught, failed, outcome, thrown, fallbackCalls, fallbackArg>>
            /\ conversationHistory' =
                  IF r.content # ""
                  THEN Append(conversationHistory,
                              [role |-> "assistant", content |-> r.content])
                  ELSE conversationHistory
            /\ processCalls' = processCalls \cup
                  {[message |-> current.id, memorySessionId |-> memorySessionId]}
            /\ pc' = "msgProcess"
    /\ UNCHANGED <<memorySessionId, dbMemorySessionId, updateCalls, lastPromptNumber,
                   fallbackAgent, pending, enqueued, consumed, processed, current, sent,
                   runs, fallbackOutcome, atStart>>
    /\ AgentFrame

\* the iterator ends (no more pending messages): lines 221-228
IteratorDone ==
    /\ pc = "loop"
    /\ pending = <<>>
    /\ pc' = "idle"
    /\ outcome' = "resolved"
    /\ current' = NoMessage
    /\ UNCHANGED <<conversationHistory, memorySessionId, dbMemorySessionId,
                   updateCalls, lastPromptNumber, fallbackAgent, pending, enqueued,
                   consumed, processed, failed, sent, processCalls, runs, thrown, caught,
                   fallbackCalls, fallbackArg, fallbackOutcome, atStart>>
    /\ AgentFrame

\* the session is cancelled: the iterator throws an abort error
IteratorAborts ==
    /\ pc = "loop"
    /\ Catch(AbortError)
    /\ UNCHANGED <<conversationHistory, memorySessionId, dbMemorySessionId,
                   updateCalls, lastPromptNumber, fallbackAgent, pending, enqueued,
                   consumed, processed, current, sent, processCalls, runs,
                   fallbackOutcome, atStart>>
    /\ AgentFrame

\* return this.fallbackAgent.startSession(session, worker) settles (line 243)
FallbackSettles(ok) ==
    /\ pc = "fallback"
    /\ pc' = "idle"
    /\ fallbackOutcome' = IF ok THEN "resolved" ELSE "rejected"
    /\ outcome' = IF ok THEN "resolved" ELSE "rejected"
    /\ thrown' = IF ok THEN NoError ELSE FallbackFailure
    /\ UNCHANGED <<conversationHistory, memorySessionId, dbMemorySessionId,
                   updateCalls, lastPromptNumber, fallbackAgent, pending, enqueued,
                   consumed, processed, failed, current, sent, processCalls, runs,
                   caught, fallbackCalls, fallbackArg, atStart>>
    /\ AgentFrame

AgentNext ==
    \/ \E k \in MessageKinds : Enqueue(k.type, k.prompt_number)
    \/ StartSession
    \/ \E kind \in Responses : InitResponse(kind)
    \/ ProcessDone
    \/ NextMessage
    \/ \E kind \in Responses : MessageResponse(kind)
    \/ IteratorDone
    \/ IteratorAborts
    \/ \E ok \in BOOLEAN : FallbackSettles(ok)

(***************************************************************************)
(* Subprocess supervisor: ObserverRegistry and ObserverReaper              *)
(***************************************************************************)
RegSessions == {1, 2}
\* the pids the callers register and the processes the scan can find
Pids == {1, 2}
NoSignals == [p \in Pids |-> {}]
EmptyMap == [s \in {} |-> {}]

\* the pid lists a caller registers: empty, one pid, or two pids where the
\* same pid may occur twice
PidLists ==
    {<<>>} \cup {<<p>> : p \in Pids} \cup {l \in Pids \X Pids : l[1] <= l[2]}

PidsOf(list) == {list[i] : i \in DOMAIN list}

\* ObserverRegistry.getAllPids (lines 124-130): the pids of every session;
\* the list holds one element per session entry
getAllPids(reg) == UNION {reg[s] : s \in DOMAIN reg}

RECURSIVE SumSizes(_, _)
SumSizes(reg, ss) ==
    IF ss = {} THEN 0
    ELSE LET s == CHOOSE t \in ss : TRUE
         IN  Cardinality(reg[s]) + SumSizes(reg, ss \ {s})

\* getAllPids().length
getAllPidsLength(reg) == SumSizes(reg, DOMAIN reg)

\* ObserverRegistry.getSessionCount (lines 173-175)
getSessionCount(reg) == Cardinality(DOMAIN reg)

\* process.kill(pid, signal): delivers the signal to a live process and
\* throws (ESRCH) for a pid that is not in the process table
killThrows(pid, aliveSet) == pid \notin aliveSet

\* a registration that creates the session entry before looking at the list
registerObserversNoEmptyCheck(reg, sessionDbId, pids) ==
    [s \in DOMAIN reg \cup {sessionDbId} |->
        IF s = sessionDbId
        THEN (IF s \in DOMAIN reg THEN reg[s] ELSE {}) \cup PidsOf(pids)
        ELSE reg[s]]

\* ObserverRegistry.registerObservers (lines 38-56)
registerObservers(reg, sessionDbId, pids) ==
    IF Len(pids) = 0 THEN reg
    ELSE [s \in DOMAIN reg \cup {sessionDbId} |->
            IF s = sessionDbId
            THEN (IF s \in DOMAIN reg THEN reg[s] ELSE {}) \cup PidsOf(pids)
            ELSE reg[s]]

\* a prune that leaves emptied sessions in the map
pruneDeadPidsKeepEmpty(reg, aliveSet) ==
    LET kept == [s \in DOMAIN reg |-> {p \in reg[s] : ~killThrows(p, aliveSet)}]
    IN  [registry |-> kept,
         pruned |-> getAllPidsLength(reg) - getAllPidsLength(kept)]

\* ObserverRegistry.pruneDeadPids (lines 145-161): the registry it leaves
\* and the count it returns (one per pid deleted from a session's set)
pruneDeadPids(reg, aliveSet) ==
    LET kept == [s \in DOMAIN reg |-> {p \in reg[s] : ~killThrows(p, aliveSet)}]
    IN  [registry |-> [s \in {t \in DOMAIN reg : kept[t] # {}} |-> kept[s]],
         pruned |-> getAllPidsLength(reg) - getAllPidsLength(kept)]

\* a SIGTERM loop without the try/catch: the first dead pid ends the loop
\* with its error
SigtermPhaseNoCatch(pidArray, aliveSet) ==
    IF \E p \in pidArray : killThrows(p, aliveSet)
    THEN [sent |-> {}, deleted |-> {}, threw |-> TRUE]
    ELSE [sent |-> pidArray, deleted |-> {}, threw |-> FALSE]

\* killSessionObservers, the SIGTERM loop (lines 72-80): the pids signalled,
\* the pids deleted from the session's set, and whether an error escaped
SigtermPhase(pidArray, aliveSet) ==
    [sent |-> {p \in pidArray : ~killThrows(p, aliveSet)},
     deleted |-> {p \in pidArray : killThrows(p, aliveSet)},
     threw |-> FALSE]

\* a SIGKILL loop without the process.kill(pid, 0) probe
SurvivorsWithoutProbe(pidArray, aliveSet) == pidArray

\* the alive filter of the poll loop (lines 85-87) and the pids the SIGKILL
\* loop signals (lines 93-101)
Survivors(pidArray, aliveSet) == {p \in pidArray : ~killThrows(p, aliveSet)}

\* a kill that leaves the session in the map
killKeepSession(reg, sessionDbId) == reg

\* a kill that clears the whole map
killDeleteEverySession(reg, sessionDbId) == EmptyMap

\* this.registry.delete(sessionDbId) (line 103)
killDeleteSession(reg, sessionDbId) ==
    [s \in DOMAIN reg \ {sessionDbId} |-> reg[s]]

Deliver(sigs, pids, sig) ==
    [p \in Pids |-> IF p \in pids THEN sigs[p] \cup {sig} ELSE sigs[p]]

\* killSessionObservers from its call to its first await (lines 63-89), on
\* the supervisor state st = [registry, signals, killing, threw]. When no
\* pid of the session is alive after the SIGTERM loop the poll loop breaks
\* at once and the call runs to its end without suspending.
BeginKill(st, sessionDbId, group) ==
    IF sessionDbId \notin DOMAIN st.registry \/ st.registry[sessionDbId] = {}
    THEN st
    ELSE LET pidArray == st.registry[sessionDbId]
             ph == SigtermPhase(pidArray, alive)
             sigs == Deliver(st.signals, ph.sent, "SIGTERM")
         IN  IF ph.threw
             THEN [st EXCEPT !.signals = sigs, !.threw = TRUE]
             ELSE IF Survivors(pidArray, alive) = {}
             THEN [st EXCEPT !.registry = killDeleteSession(st.registry, sessionDbId),
                             !.signals = sigs]
             ELSE [st EXCEPT !.registry[sessionDbId] = pidArray \ ph.deleted,
                             !.signals = sigs,
                             !.killing = st.killing \cup
                                 {[session |-> sessionDbId, pidArray |-> pidArray,
                                   group |-> group]}]

RECURSIVE BeginKills(_, _, _)
BeginKills(st, sessionIds, group) ==
    IF sessionIds = {} THEN st
    ELSE LET s == CHOOSE t \in sessionIds : TRUE
         IN  BeginKills(BeginKill(st, s, group), sessionIds \ {s}, group)

\* the killSessionObservers calls that can be in flight
KillCalls == [session : RegSessions, pidArray : SUBSET Pids \ {{}}, group : {0, 1}]

SupervisorState ==
    [registry |-> registry, signals |-> signals, killing |-> killing, threw |-> FALSE]

Returned(op, sessionDbId, threw, pruned, killed) ==
    [op |-> op, session |-> sessionDbId, threw |-> threw,
     pruned |-> pruned, killed |-> killed]

KillAllIdle == [pc |-> "idle", pids |-> {}, disturbed |-> FALSE]

\* killAllState describes the killAll call that is running or that returned
\* last; the next call of the registry starts from a clean record
AfterKillAll(k) == IF k.pc = "done" THEN KillAllIdle ELSE k
ReapIdle == [pc |-> "idle", pruned |-> 0, dead |-> {}, disturbed |-> FALSE,
             discovered |-> {}, periodic |-> FALSE]

\* the state after the registry singleton and a reaper are constructed;
\* any of the pids may be a running process
RegistryStart ==
    /\ registry = EmptyMap
    /\ alive \in SUBSET Pids
    /\ signals = NoSignals
    /\ killing = {}
    /\ killAllState = KillAllIdle
    /\ interval = FALSE
    /\ timers = 0
    /\ reapState = ReapIdle
    /\ lastCall = Returned("none", 0, FALSE, 0, 0)
    /\ registrations = 0

\* a process ends: on its own, or because of a signal it received
ProcessExits(p) ==
    /\ p \in alive
    /\ alive' = alive \ {p}
    /\ signals' = [signals EXCEPT ![p] = {}]
    /\ UNCHANGED <<registry, killing, killAllState, interval, timers,
                   reapState, lastCall>>
    /\ UNCHANGED registrations
    /\ RegistryFrame

RegisterObservers(sessionDbId, pids) ==
    /\ registrations < MaxRegs
    /\ registrations' = registrations + 1
    /\ registry' = registerObservers(registry, sessionDbId, pids)
    /\ killAllState' = IF killAllState.pc = "running"
                       THEN [killAllState EXCEPT !.disturbed = TRUE]
                       ELSE AfterKillAll(killAllState)
    /\ reapState' = IF reapState.pc = "idle" THEN reapState
                    ELSE [reapState EXCEPT !.disturbed = TRUE]
    /\ lastCall' = Returned("register", sessionDbId, FALSE, 0, 0)
    /\ UNCHANGED <<alive, signals, killing, interval, timers>>
    /\ RegistryFrame

\* the call suspends in its poll loop (line 89) when a pid is still alive
Suspends(reg, sessionDbId) ==
    /\ sessionDbId \in DOMAIN reg
    /\ Survivors(reg[sessionDbId], alive) # {}
    /\ ~SigtermPhase(reg[sessionDbId], alive).threw

\* killSessionObservers(sessionDbId) is called (lines 62-89)
KillSessionObservers(sessionDbId) ==
    /\ Cardinality(killing) < MaxKills
    /\ killAllState' = AfterKillAll(killAllState)
    /\ LET st == BeginKill(SupervisorState, sessionDbId, 0) IN
          /\ registry' = st.registry
          /\ signals' = st.signals
          /\ killing' = st.killing
          /\ lastCall' = IF Suspends(registry, sessionDbId) THEN lastCall
                         ELSE Returned("kill", sessionDbId, st.threw, 0, 0)
    /\ UNCHANGED <<alive, interval, timers, reapState>>
    /\ UNCHANGED registrations
    /\ RegistryFrame

\* a suspended killSessionObservers wakes from its sleep and leaves the poll
\* loop, because no pid of pidArray is alive or because the deadline has
\* passed (a sleep has no upper bound); it then signals the survivors and
\* deletes the session (lines 84-103). A wake-up that finds a pid alive
\* before the deadline sleeps again and changes nothing.
KillFinish(k, expired) ==
    /\ k \in killing
    /\ expired \/ Survivors(k.pidArray, alive) = {}
    /\ signals' = Deliver(signals, Survivors(k.pidArray, alive), "SIGKILL")
    /\ registry' = killDeleteSession(registry, k.session)
    /\ killing' = killing \ {k}
    /\ LET last == k.group = 1 /\ ~\E j \in killing \ {k} : j.group = 1 IN
          /\ killAllState' = IF last THEN [killAllState EXCEPT !.pc = "done"]
                             ELSE AfterKillAll(killAllState)
          /\ lastCall' = Returned(IF last THEN "killAll" ELSE "kill",
                                  k.session, FALSE, 0, 0)
    /\ UNCHANGED <<alive, interval, timers, reapState>>
    /\ UNCHANGED registrations
    /\ RegistryFrame

\* a shutdown that kills the observers of one session only
killAllFirstSessionOnly(reg) ==
    IF DOMAIN reg = {} THEN {} ELSE {CHOOSE s \in DOMAIN reg : TRUE}

\* Array.from(this.registry.keys()) (line 110)
killAllSessionIds(reg) == DOMAIN reg

\* killAll (lines 109-119): every killSessionObservers call runs up to its
\* first await inside the map, Promise.all waits for the suspended ones
KillAll ==
    /\ killAllState.pc # "running"
    /\ Cardinality(killing) + Cardinality(DOMAIN registry) <= MaxKills
    /\ LET sessionIds == killAllSessionIds(registry)
           st == BeginKills(SupervisorState, sessionIds, 1)
           done == ~\E j \in st.killing : j.group = 1
       IN  /\ registry' = st.registry
           /\ signals' = st.signals
           /\ killing' = st.killing
           /\ killAllState' = [pc |-> IF done THEN "done" ELSE "running",
                               pids |-> getAllPids(registry),
                               disturbed |-> FALSE]
           /\ lastCall' = IF done THEN Returned("killAll", 0, st.threw, 0, 0)
                          ELSE lastCall
    /\ UNCHANGED <<alive, interval, timers, reapState>>
    /\ UNCHANGED registrations
    /\ RegistryFrame

\* pruneDeadPids called directly
PruneDeadPids ==
    /\ LET r == pruneDeadPids(registry, alive) IN
          /\ registry' = r.registry
          /\ lastCall' = Returned("prune", 0, FALSE, r.pruned, 0)
    /\ killAllState' = AfterKillAll(killAllState)
    /\ UNCHANGED <<alive, signals, killing, interval, timers, reapState>>
    /\ UNCHANGED registrations
    /\ RegistryFrame

\* ObserverRegistry.reset (lines 166-168)
Reset ==
    /\ registry' = EmptyMap
    /\ lastCall' = Returned("reset", 0, FALSE, 0, 0)
    /\ killAllState' = AfterKillAll(killAllState)
    /\ UNCHANGED <<alive, signals, killing, interval, timers, reapState>>
    /\ UNCHANGED registrations
    /\ RegistryFrame

\* a start() that never returns early
startReturnsEarlyNever(iv) == FALSE

\* if (this.interval) return;   (line 27)
startReturnsEarly(iv) == iv

\* ObserverReaper.start (lines 26-36)
ReaperStart ==
    /\ timers < MaxTimers
    /\ IF startReturnsEarly(interval)
       THEN UNCHANGED <<interval, timers>>
       ELSE interval' = TRUE /\ timers' = timers + 1
    /\ lastCall' = Returned(IF startReturnsEarly(interval) THEN "start: no-op" ELSE "start",
                            0, FALSE, 0, 0)
    /\ UNCHANGED <<registry, alive, signals, killing, killAllState, reapState>>
    /\ UNCHANGED registrations
    /\ RegistryFrame

\* ObserverReaper.stop (lines 41-47)
ReaperStop ==
    /\ IF interval
       THEN interval' = FALSE /\ timers' = timers - 1
       ELSE UNCHANGED <<interval, timers>>
    /\ lastCall' = Returned(IF interval THEN "stop" ELSE "stop: no-op", 0, FALSE, 0, 0)
    /\ UNCHANGED <<registry, alive, signals, killing, killAllState, reapState>>
    /\ UNCHANGED registrations
    /\ RegistryFrame

\* a reap cycle that does not prune
reapPruneSkipped(reg, aliveSet) == [registry |-> reg, pruned |-> 0]

\* const pruned = this.registry.pruneDeadPids();   (line 54)
reapPrune(reg, aliveSet) == pruneDeadPids(reg, aliveSet)

\* reap() up to its await (lines 52-57); one cycle at a time
ReapBegin(periodic) ==
    /\ reapState.pc = "idle"
    /\ LET r == reapPrune(registry, alive) IN
          /\ registry' = r.registry
          /\ reapState' = [pc |-> "scanning", pruned |-> r.pruned,
                           dead |-> {p \in Pids : killThrows(p, alive)},
                           disturbed |-> FALSE,
                           discovered |-> {}, periodic |-> periodic]
    /\ UNCHANGED <<alive, signals, killing, killAllState, interval, timers, lastCall>>
    /\ UNCHANGED registrations
    /\ RegistryFrame

\* the interval timer fires (lines 29-33)
TimerFires == timers > 0 /\ ReapBegin(TRUE)

\* reap() called directly
Reap == reapState.pc = "idle" /\ ReapBegin(FALSE)

\* the process scan of findOrphanedObserverProcesses reads the process
\* table: the extractor children running at that moment
ReapScan ==
    /\ reapState.pc = "scanning"
    /\ reapState' = [reapState EXCEPT !.pc = "scanned", !.discovered = alive]
    /\ UNCHANGED <<registry, alive, signals, killing, killAllState, interval,
                   timers, lastCall>>
    /\ UNCHANGED registrations
    /\ RegistryFrame

\* the process scan fails: reap() rejects; the timer callback's .catch logs
\* the error (lines 30-32), a direct caller receives it
ReapScanFails ==
    /\ reapState.pc = "scanning"
    /\ reapState' = ReapIdle
    /\ lastCall' = IF reapState.periodic THEN Returned("tick logged error", 0, FALSE, 0, 0)
                   ELSE Returned("reap", 0, TRUE, 0, 0)
    /\ UNCHANGED <<registry, alive, signals, killing, killAllState, interval, timers>>
    /\ UNCHANGED registrations
    /\ RegistryFrame

\* a discovery that reports every observer process it finds
findUnregisteredObserversAll(discoveredPids, reg) == discoveredPids

\* ObserverRegistry.findUnregisteredObservers after its await (lines
\* 137-139): the discovered pids that no session has registered
findUnregisteredObservers(discoveredPids, reg) ==
    discoveredPids \ getAllPids(reg)

\* the scan result arrives: the pids not in the registry are signalled, a
\* pid that died since the scan is skipped (lines 136-140 and 58-79)
ReapKill ==
    /\ reapState.pc = "scanned"
    /\ LET orphanPids ==
               findUnregisteredObservers(reapState.discovered, registry)
           signalled == {p \in orphanPids : ~killThrows(p, alive)}
       IN  /\ signals' = Deliver(signals, signalled, "SIGTERM")
           /\ lastCall' = Returned(IF reapState.periodic THEN "tick" ELSE "reap",
                                   0, FALSE, reapState.pruned, Cardinality(signalled))
    /\ reapState' = ReapIdle
    /\ UNCHANGED <<registry, alive, killing, killAllState, interval, timers>>
    /\ UNCHANGED registrations
    /\ RegistryFrame

RegistryNext ==
    \/ \E p \in Pids : ProcessExits(p)
    \/ \E s \in RegSessions : \E pids \in PidLists : RegisterObservers(s, pids)
    \/ \E s \in RegSessions : KillSessionObservers(s)
    \/ \E k \in KillCalls : \E expired \in BOOLEAN : KillFinish(k, expired)
    \/ KillAll
    \/ PruneDeadPids
    \/ Reset

\* the worker in operation: sessions register and kill their observers
\* while the started reaper runs its periodic cycles
SupervisorNext ==
    \/ \E p \in Pids : ProcessExits(p)
    \/ \E s \in RegSessions : \E pids \in PidLists : RegisterObservers(s, pids)
    \/ \E s \in RegSessions : KillSessionObservers(s)
    \/ \E k \in KillCalls : \E expired \in BOOLEAN : KillFinish(k, expired)
    \/ ReaperStart
    \/ TimerFires
    \/ ReapScan
    \/ ReapScanFails
    \/ ReapKill

ReaperNext ==
    \/ \E p \in Pids : ProcessExits(p)
    \/ \E s \in RegSessions : \E pids \in PidLists : RegisterObservers(s, pids)
    \/ ReaperStart
    \/ ReaperStop
    \/ TimerFires
    \/ Reap
    \/ ReapScan
    \/ ReapScanFails
    \/ ReapKill

(***************************************************************************)
(* Vector backends: ChromaBackend and SqliteVecBackend                     *)
(***************************************************************************)
Backends == {"chroma", "sqlite-vec"}

\* the observations the worker writes: syncObservation stores text: null
RowShapes == [narrative : BOOLEAN, text : {FALSE}, facts : 0..MaxFacts]

StoredObservation(id, shape) ==
    [id |-> id, narrative |-> shape.narrative, text |-> shape.text,
     facts |-> shape.facts]

VectorDocument(id, sqliteId) == [id |-> id, sqlite_id |-> sqliteId]

\* a granulation that leaves the text field out
formatObservationDocsSkipText(obs) ==
    (IF obs.narrative
        THEN <<VectorDocument("obs_" \o ToString(obs.id) \o "_narrative", obs.id)>>
        ELSE <<>>)
    \o [index \in 1..obs.facts |->
          VectorDocument("obs_" \o ToString(obs.id) \o "_fact_"
                            \o ToString(index - 1), obs.id)]

\* the granulation rule: one document for the narrative, one for the text,
\* one per fact, with ids obs_<id>_narrative, obs_<id>_text, obs_<id>_fact_<i>
formatObservationDocs(obs) ==
    (IF obs.narrative
        THEN <<VectorDocument("obs_" \o ToString(obs.id) \o "_narrative", obs.id)>>
        ELSE <<>>)
    \o (IF obs.text
        THEN <<VectorDocument("obs_" \o ToString(obs.id) \o "_text", obs.id)>>
        ELSE <<>>)
    \o [index \in 1..obs.facts |->
          VectorDocument("obs_" \o ToString(obs.id) \o "_fact_"
                            \o ToString(index - 1), obs.id)]

RECURSIVE FlattenDocs(_)
FlattenDocs(rows) ==
    IF rows = <<>> THEN <<>>
    ELSE formatObservationDocs(Head(rows)) \o FlattenDocs(Tail(rows))

SeqRange(seq) == {seq[i] : i \in DOMAIN seq}

Slice(seq, from, count) ==
    SubSeq(seq, from, IF from + count - 1 < Len(seq) THEN from + count - 1
                                                     ELSE Len(seq))

\* ids of the documents the granulation rule expects for one Store row
expectedIds(obs) == {d.id : d \in SeqRange(formatObservationDocs(obs))}

\* getExistingChromaIds: the sqlite_id of every document of the collection
getExistingChromaIds(store) == {v.sqlite_id : v \in store}

\* SqliteVecBackend.ensureBackfilled: the id of every stored document
existingIds(store) == {v.id : v \in store}

\* the documents a backfill run sets out to add.  Chroma leaves out the
\* rows whose sqlite_id it found; sqlite-vec leaves out the documents whose
\* id it found.
ChromaBackfillDocs(rows, store) ==
    FlattenDocs(SelectSeq(rows,
                  LAMBDA obs : obs.id \notin getExistingChromaIds(store)))

SqliteBackfillDocs(rows, store) ==
    SelectSeq(FlattenDocs(rows), LAMBDA doc : doc.id \notin existingIds(store))

\* db.prepare(...) returns a Statement, which has no catch method, and it
\* throws itself when the vec_embeddings table does not exist: in either
\* case the statement at lines 336-339 throws before the transaction begins
prepareInsertVecThrows == TRUE

\* a document as the vector store holds it
Stored(doc, embedded) ==
    [f \in DOMAIN doc \cup {"embedded"} |->
        IF f = "embedded" THEN embedded ELSE doc[f]]

DocIds(documents) == {d.id : d \in SeqRange(documents)}

\* what the Chroma server does with chroma_add_documents when an id is
\* already in the collection is not decided by this repository: it keeps
\* the old document, rejects the call, or replaces the document
DuplicatePolicies == {"ignored", "rejected", "replaced"}

\* ChromaBackend.addDocuments: one chroma_add_documents call; the server
\* embeds the documents; a lost connection throws
ChromaAddDocuments(documents, store, up, onDuplicate) ==
    LET ids == DocIds(documents)
        duplicate == ids \cap existingIds(store) # {}
    IN IF documents = <<>> THEN [threw |-> FALSE, store |-> store]
       ELSE IF ~up THEN [threw |-> TRUE, store |-> store]
       ELSE IF duplicate /\ onDuplicate = "rejected"
       THEN [threw |-> TRUE, store |-> store]
       ELSE IF onDuplicate = "replaced"
       THEN [threw |-> FALSE,
             store |-> {v \in store : v.id \notin ids}
                       \cup {Stored(d, TRUE) : d \in SeqRange(documents)}]
       ELSE [threw |-> FALSE,
             store |-> store
                       \cup {Stored(d, TRUE) :
                               d \in {e \in SeqRange(documents) :
                                          e.id \notin existingIds(store)}}]

\* SqliteVecBackend.addDocuments: a failed embed call is caught and leaves
\* empty embeddings, stored as NULL; INSERT OR REPLACE in one transaction
SqliteAddDocuments(documents, store, up) ==
    IF documents = <<>> THEN [threw |-> FALSE, store |-> store]
    ELSE IF prepareInsertVecThrows THEN [threw |-> TRUE, store |-> store]
    ELSE [threw |-> FALSE,
          store |-> {v \in store : v.id \notin DocIds(documents)}
                    \cup {Stored(d, up) : d \in SeqRange(documents)}]

addDocuments(which, documents, store, up, onDuplicate) ==
    IF which = "chroma"
       THEN ChromaAddDocuments(documents, store, up, onDuplicate)
       ELSE SqliteAddDocuments(documents, store, up)

syncObservation(which, obs, store, up, onDuplicate) ==
    addDocuments(which, formatObservationDocs(obs), store, up, onDuplicate)

\* bruteForceSearch: only the rows WHERE embedding IS NOT NULL are scored
bruteForceSearch(store) == {v.id : v \in {w \in store : w.embedded}}

BackfillIdle == [pc |-> "idle", todo |-> <<>>, next |-> 1, providerOk |-> TRUE,
                 rows |-> 0]

NoBackfill == [run |-> 0, outcome |-> "none", providerOk |-> TRUE, rows |-> 0]

BackfillEnded(how, providerOk, rows) ==
    [run |-> lastBackfill.run + 1, outcome |-> how,
     providerOk |-> providerOk, rows |-> rows]

VectorStart ==
    /\ vBackend \in Backends
    /\ providerUp \in BOOLEAN
    /\ storeRows = <<>>
    /\ vectorDocs = {}
    /\ syncFailed = {}
    /\ backfill = BackfillIdle
    /\ lastBackfill = NoBackfill

\* the embedding endpoint or the Chroma connection goes down or comes back
ProviderChanges ==
    /\ providerUp' = ~providerUp
    /\ backfill' = IF backfill.pc = "running"
                      THEN [backfill EXCEPT !.providerOk = FALSE]
                      ELSE backfill
    /\ UNCHANGED <<vBackend, storeRows, vectorDocs, syncFailed, lastBackfill>>
    /\ VectorFrame

\* an observation is written through the Store first and then synced; a
\* sync that rejects leaves the Store row in place
StoreAndSync(shape) ==
    /\ Len(storeRows) < MaxRows
    /\ \E onDuplicate \in DuplicatePolicies :
       LET obs == StoredObservation(Len(storeRows) + 1, shape)
           res == syncObservation(vBackend, obs, vectorDocs, providerUp,
                                  onDuplicate)
       IN /\ storeRows' = Append(storeRows, obs)
          /\ vectorDocs' = res.store
          /\ syncFailed' = IF res.threw THEN syncFailed \cup {obs.id}
                                        ELSE syncFailed
    /\ UNCHANGED <<vBackend, providerUp, backfill, lastBackfill>>
    /\ VectorFrame

\* ensureBackfilled up to its first addDocuments call
EnsureBackfilled ==
    /\ backfill.pc = "idle"
    /\ lastBackfill.run < MaxBackfills
    /\ IF vBackend = "chroma" /\ ~providerUp
          THEN /\ lastBackfill' = BackfillEnded("rejected", FALSE, Len(storeRows))
               /\ backfill' = BackfillIdle
          ELSE LET todo == IF vBackend = "chroma"
                              THEN ChromaBackfillDocs(storeRows, vectorDocs)
                              ELSE SqliteBackfillDocs(storeRows, vectorDocs)
               IN IF todo = <<>>
                     THEN /\ lastBackfill' = BackfillEnded("resolved", providerUp,
                                                           Len(storeRows))
                          /\ backfill' = BackfillIdle
                     ELSE /\ backfill' = [pc |-> "running", todo |-> todo,
                                          next |-> 1, providerOk |-> providerUp,
                                          rows |-> Len(storeRows)]
                          /\ lastBackfill' = lastBackfill
    /\ UNCHANGED <<vBackend, providerUp, storeRows, vectorDocs, syncFailed>>
    /\ VectorFrame

\* one turn of the batch loop: addDocuments(slice(i, i + BATCH_SIZE))
BackfillBatch ==
    /\ backfill.pc = "running"
    /\ \E onDuplicate \in DuplicatePolicies :
       LET batch == Slice(backfill.todo, backfill.next, MaxBatch)
           res == addDocuments(vBackend, batch, vectorDocs, providerUp,
                               onDuplicate)
           next == backfill.next + MaxBatch
       IN /\ vectorDocs' = res.store
          /\ IF res.threw
                THEN /\ lastBackfill' = BackfillEnded("rejected",
                                           backfill.providerOk /\ providerUp,
                                           backfill.rows)
                     /\ backfill' = BackfillIdle
                ELSE IF next > Len(backfill.todo)
                THEN /\ lastBackfill' = BackfillEnded("resolved",
                                           backfill.providerOk, backfill.rows)
                     /\ backfill' = BackfillIdle
                ELSE /\ backfill' = [backfill EXCEPT !.next = next]
                     /\ lastBackfill' = lastBackfill
    /\ UNCHANGED <<vBackend, providerUp, storeRows, syncFailed>>
    /\ VectorFrame

VectorNext ==
    \/ ProviderChanges
    \/ \E shape \in RowShapes : StoreAndSync(shape)
    \/ EnsureBackfilled
    \/ BackfillBatch

(***************************************************************************)
(* Granulation of Store rows into vector documents                         *)
(***************************************************************************)
\* a text column of the Store: NULL, the empty string or some text
FieldValues == {"null", "", "some text"}

\* if (obs.narrative), if (summary[field]): NULL and "" are falsy
Truthy(value) == value \notin {"null", ""}

RECURSIVE SeqsUpTo(_, _)
SeqsUpTo(S, n) ==
    IF n = 0 THEN {<<>>}
    ELSE LET shorter == SeqsUpTo(S, n - 1)
         IN shorter \cup {Append(q, x) : q \in shorter, x \in S}

\* the facts column: NULL, or the JSON text of an array of strings
FactColumns ==
    {[isNull |-> TRUE, json |-> <<>>]}
    \cup {[isNull |-> FALSE, json |-> items] :
               items \in SeqsUpTo({"", "a fact"}, MaxFacts)}

\* obs.facts ? JSON.parse(obs.facts) : []
parseFacts(column) == IF column.isNull THEN <<>> ELSE column.json

ObservationRows ==
    [id : 1..MaxRows, narrative : FieldValues, text : FieldValues,
     facts : FactColumns]

\* what the granulation looks at in an observation row
ObservationShape(row) ==
    [narrative |-> Truthy(row.narrative), text |-> Truthy(row.text),
     facts |-> Len(parseFacts(row.facts))]

SummaryFields ==
    <<"request", "investigated", "learned", "completed", "next_steps", "notes">>

SummaryRows == [id : 1..MaxRows, fields : [DOMAIN SummaryFields -> FieldValues]]

RECURSIVE formatSummaryDocsFrom(_, _)
formatSummaryDocsFrom(summary, k) ==
    IF k > Len(SummaryFields) THEN <<>>
    ELSE (IF Truthy(summary.fields[k])
             THEN <<VectorDocument("summary_" \o ToString(summary.id) \o "_"
                                      \o SummaryFields[k], summary.id)>>
             ELSE <<>>)
         \o formatSummaryDocsFrom(summary, k + 1)

\* for (const field of fields) if (summary[field]) documents.push(...)
formatSummaryDocs(summary) == formatSummaryDocsFrom(summary, 1)

NoGranulation == [kind |-> "none"]

GranInputs ==
    {[kind |-> "observation", row |-> row] : row \in ObservationRows}
    \cup {[kind |-> "summary", row |-> row] : row \in SummaryRows}

GranStart ==
    /\ granInput \in GranInputs
    /\ granDocs = <<>>
    /\ granDone = FALSE

FormatObservation ==
    /\ ~granDone
    /\ granInput.kind = "observation"
    /\ granDocs' = formatObservationDocs(
                       StoredObservation(granInput.row.id,
                                         ObservationShape(granInput.row)))
    /\ granDone' = TRUE
    /\ UNCHANGED granInput
    /\ GranFrame

FormatSummary ==
    /\ ~granDone
    /\ granInput.kind = "summary"
    /\ granDocs' = formatSummaryDocs(granInput.row)
    /\ granDone' = TRUE
    /\ UNCHANGED granInput
    /\ GranFrame

GranNext == FormatObservation \/ FormatSummary

(***************************************************************************)
(* Vector backends: sync and query of documents with their metadata        *)
(***************************************************************************)
CollIds == {1, 2}
\* project, memory session and creation time of the rows synced
RowProfiles ==
    {[project |-> "p1", memory_session_id |-> "s1", created_at_epoch |-> 1],
     [project |-> "p2", memory_session_id |-> "s2", created_at_epoch |-> 2]}
Contents == {"first text", "second text"}

\* syncObservation and syncUserPrompt calls.  Observations and user prompts
\* are rows of different Store tables, each with its own ids.
SyncCalls ==
    {c \in [kind : {"observation", "user_prompt"}, id : CollIds,
            row : RowProfiles, facts : {0, 1}, content : Contents] :
        c.kind = "user_prompt" => c.facts = 0}

\* a document with the metadata both backends store with it
WithMetadata(doc, call) ==
    [id |-> doc.id, sqlite_id |-> doc.sqlite_id, doc_type |-> call.kind,
     project |-> call.row.project,
     memory_session_id |-> call.row.memory_session_id,
     created_at_epoch |-> call.row.created_at_epoch,
     document |-> call.content]

formatUserPromptDoc(id) == VectorDocument("prompt_" \o ToString(id), id)

\* the documents a sync call hands to addDocuments
SyncDocuments(call) ==
    LET docs == IF call.kind = "observation"
                   THEN formatObservationDocs(
                          StoredObservation(call.id,
                             [narrative |-> TRUE, text |-> FALSE,
                              facts |-> call.facts]))
                   ELSE <<formatUserPromptDoc(call.id)>>
    IN [i \in DOMAIN docs |-> WithMetadata(docs[i], call)]

\* VectorFilters: "" and 0 stand for a field that is not provided
NoFilters == [project |-> "", docType |-> "", memorySessionId |-> "",
              minEpoch |-> 0, maxEpoch |-> 0]

\* no filter, each field alone, and all fields that can hold together
Filters ==
    {NoFilters,
     [NoFilters EXCEPT !.project = "p1"],
     [NoFilters EXCEPT !.docType = "observation"],
     [NoFilters EXCEPT !.memorySessionId = "s1"],
     [NoFilters EXCEPT !.minEpoch = 2],
     [NoFilters EXCEPT !.maxEpoch = 1],
     [project |-> "p2", docType |-> "observation", memorySessionId |-> "s2",
      minEpoch |-> 2, maxEpoch |-> 2]}

Limits == {1, 2}

\* what the claim calls for: every provided field holds of the document
SatisfiesFilters(v, filters) ==
    /\ filters.project # "" => v.project = filters.project
    /\ filters.docType # "" => v.doc_type = filters.docType
    /\ filters.memorySessionId # "" => v.memory_session_id = filters.memorySessionId
    /\ filters.minEpoch # 0 => v.created_at_epoch >= filters.minEpoch
    /\ filters.maxEpoch # 0 => v.created_at_epoch <= filters.maxEpoch

\* ChromaBackend.query: the where filter holds project, doc_type and
\* memory_session_id only
ChromaWhere(v, filters) ==
    /\ filters.project # "" => v.project = filters.project
    /\ filters.docType # "" => v.doc_type = filters.docType
    /\ filters.memorySessionId # "" => v.memory_session_id = filters.memorySessionId

\* SqliteVecBackend.query: the conditions joined with AND
SqliteWhere(v, filters) ==
    /\ filters.project # "" => v.project = filters.project
    /\ filters.docType # "" => v.doc_type = filters.docType
    /\ filters.memorySessionId # "" => v.memory_session_id = filters.memorySessionId
    /\ filters.minEpoch # 0 => v.created_at_epoch >= filters.minEpoch
    /\ filters.maxEpoch # 0 => v.created_at_epoch <= filters.maxEpoch

\* the documents the search scores
Matching(which, store, filters) ==
    IF which = "chroma" THEN {v \in store : ChromaWhere(v, filters)}
    ELSE {v \in store : SqliteWhere(v, filters) /\ v.embedded}

RECURSIVE Perms(_)
Perms(S) ==
    IF S = {} THEN {<<>>}
    ELSE UNION {{<<x>> \o p : p \in Perms(S \ {x})} : x \in S}

\* ORDER BY distance LIMIT ? / n_results: the nearest documents first.  The
\* distance of a document is its place in the ranking.
Nearest(ranking, limit) ==
    [i \in 1..(IF limit < Len(ranking) THEN limit ELSE Len(ranking)) |->
        [id |-> ranking[i].id, sqliteId |-> ranking[i].sqlite_id,
         docType |-> ranking[i].doc_type, distance |-> i]]

\* seenSqliteIds: a result is dropped when its sqlite_id was seen before
RECURSIVE Dedupe(_, _)
Dedupe(results, seenSqliteIds) ==
    IF results = <<>> THEN <<>>
    ELSE LET r == Head(results)
         IN IF r.sqliteId \in seenSqliteIds
               THEN Dedupe(Tail(results), seenSqliteIds)
               ELSE <<r>> \o Dedupe(Tail(results), seenSqliteIds \cup {r.sqliteId})

NoVectorCall == [op |-> "none"]

CollStart ==
    /\ collBackend \in Backends
    /\ collection = {}
    /\ lastVector = NoVectorCall

\* syncObservation / syncUserPrompt: format the documents, addDocuments
SyncDocumentsCall(call, up) ==
    /\ \E onDuplicate \in DuplicatePolicies :
       LET res == addDocuments(collBackend, SyncDocuments(call), collection, up,
                               onDuplicate)
       IN /\ Cardinality(res.store) <= MaxDocs
          /\ collection' = res.store
          /\ lastVector' = [op |-> "sync", call |-> call, up |-> up,
                            threw |-> res.threw]
    /\ UNCHANGED collBackend
    /\ CollFrame

\* query: the where clause, the nearest documents, the deduplication
Query(filters, limit, up) ==
    /\ \E ranking \in Perms(Matching(collBackend, collection, filters)) :
          lastVector' =
             IF ~up
                THEN [op |-> "query", filters |-> filters, limit |-> limit,
                      up |-> up, threw |-> collBackend = "chroma",
                      nearest |-> <<>>, results |-> <<>>]
                ELSE [op |-> "query", filters |-> filters, limit |-> limit,
                      up |-> up, threw |-> FALSE,
                      nearest |-> Nearest(ranking, limit),
                      results |-> Dedupe(Nearest(ranking, limit), {})]
    /\ UNCHANGED <<collBackend, collection>>
    /\ CollFrame

CollNext ==
    \/ \E call \in SyncCalls : \E up \in BOOLEAN : SyncDocumentsCall(call, up)
    \/ \E filters \in Filters : \E limit \in Limits : \E up \in BOOLEAN :
          Query(filters, limit, up)

(***************************************************************************)
(* Migration pipeline: SchemaAdapter.transform and SchemaMigrator          *)
(* (src/src/services/federation).  The Store the migrator writes to        *)
(* (SessionStore.importObservation, createSDKSession) is modelled from     *)
(* its specification: dedup on (memory_session_id, title,                  *)
(* created_at_epoch).                                                      *)
(***************************************************************************)
Titles == {"Record 1", "Record 2"}

\* the timestamp field of an external record that has none
Absent == 0

Timestamps == {Absent, 1}

\* storeThrows: the Store rejects the row the record is transformed into
ExternalRecords ==
    {r \in [title : Titles, timestamp : Timestamps, storeThrows : BOOLEAN] :
        /\ r.timestamp = Absent => r.title = "Record 1"
        /\ r.storeThrows => r.title = "Record 2" /\ r.timestamp # Absent}

\* continueOnError is optional: a caller passes true, false or nothing
OptionalBooleans == {"omitted", "true", "false"}

MigrationOptions ==
    [targetProject : {"imported-data"},
     memorySessionId : {"omitted", "given"},
     onProgress : BOOLEAN,
     continueOnError : OptionalBooleans,
     dryRun : BOOLEAN]

\* the session a caller creates before it passes options.memorySessionId
GivenSession == [synthetic |-> FALSE, at |-> 0]

\* `migration-${adapter id}-${Date.now()}`
syntheticSessionId(t) == [synthetic |-> TRUE, at |-> t]

\* SchemaAdapter.extractTimestamp, default format: a number is returned
\* as it is, a missing value becomes Date.now()
extractTimestamp(external, t) ==
    IF external.timestamp = Absent THEN t ELSE external.timestamp

\* SchemaAdapter.transform: the fields the Store's dedup key is built from
transform(external, t) ==
    [title |-> external.title,
     created_at_epoch |-> extractTimestamp(external, t)]

\* createSDKSession followed by the UPDATE that sets memory_session_id
ensureMigrationSession(sessions, t) ==
    [memory_session_id |-> syntheticSessionId(t),
     sdk_sessions |-> sessions \cup {syntheticSessionId(t)}]

DedupKey(row) ==
    <<row.memory_session_id, row.title, row.created_at_epoch>>

ExistingRows(table, row) ==
    {i \in 1..Len(table) : DedupKey(table[i]) = DedupKey(row)}

\* SessionStore.importObservation: the id of the row that already holds
\* the dedup key, or the id of the row it inserts
importObservation(table, row) ==
    IF ExistingRows(table, row) # {}
    THEN [imported |-> FALSE,
          id |-> table[CHOOSE i \in ExistingRows(table, row) : TRUE].id,
          observations |-> table]
    ELSE [imported |-> TRUE,
          id |-> Len(table) + 1,
          observations |-> Append(table, [id |-> Len(table) + 1] @@ row)]

\* localId of a result that carries none
NoLocalId == 0

memorySessionIdAlwaysSynthetic(options, sessions, t) ==
    ensureMigrationSession(sessions, t)

\* options.memorySessionId ?? this.ensureMigrationSession(targetProject)
memorySessionIdFor(options, sessions, t) ==
    IF options.memorySessionId = "given"
    THEN [memory_session_id |-> GivenSession, sdk_sessions |-> sessions]
    ELSE ensureMigrationSession(sessions, t)

\* SchemaMigrator.migrateRecord, called while Date.now() is t
migrateRecord(external, options, table, sessions, t) ==
    LET internal == transform(external, t)
        session == memorySessionIdFor(options, sessions, t)
        row == [memory_session_id |-> session.memory_session_id,
                project |-> options.targetProject,
                title |-> internal.title,
                created_at_epoch |-> internal.created_at_epoch]
        result == importObservation(table, row)
    IN  IF options.dryRun
        THEN [success |-> TRUE, imported |-> TRUE, localId |-> NoLocalId,
              observations |-> table, sdk_sessions |-> sessions]
        ELSE IF external.storeThrows
        THEN [success |-> FALSE, imported |-> FALSE, localId |-> NoLocalId,
              observations |-> table, sdk_sessions |-> session.sdk_sessions]
        ELSE [success |-> TRUE, imported |-> result.imported,
              localId |-> result.id,
              observations |-> result.observations,
              sdk_sessions |-> session.sdk_sessions]

MigrationRecordResult(r) ==
    [success |-> r.success, imported |-> r.imported, localId |-> r.localId]

\* options.batchSize ?? 100, for a caller that passes no batchSize
batchSize == 100

\* !options.continueOnError: an omitted option is undefined, which is falsy
NotContinueOnError(options) == options.continueOnError # "true"

\* the loop of migrateBatch from record i on; nows[i] is Date.now() while
\* record i is migrated
RECURSIVE migrateBatchFrom(_, _, _, _, _)
migrateBatchFrom(i, externals, options, nows, acc) ==
    IF i > Len(externals) THEN acc
    ELSE LET r == migrateRecord(externals[i], options, acc.observations,
                                acc.sdk_sessions, nows[i])
             after ==
                 [observations |-> r.observations,
                  sdk_sessions |-> r.sdk_sessions,
                  records |-> Append(acc.records, MigrationRecordResult(r)),
                  imported |-> acc.imported
                      + (IF r.success /\ r.imported THEN 1 ELSE 0),
                  duplicates |-> acc.duplicates
                      + (IF r.success /\ ~r.imported THEN 1 ELSE 0),
                  errors |-> acc.errors + (IF r.success THEN 0 ELSE 1),
                  progress |-> IF options.onProgress /\ i % batchSize = 0
                               THEN Append(acc.progress, i)
                               ELSE acc.progress]
         IN  IF ~r.success /\ NotContinueOnError(options)
             THEN [after EXCEPT !.progress = acc.progress]
             ELSE migrateBatchFrom(i + 1, externals, options, nows, after)

\* SchemaMigrator.migrateBatch
migrateBatch(externals, options, table, sessions, nows) ==
    LET done == migrateBatchFrom(1, externals, options, nows,
                    [observations |-> table, sdk_sessions |-> sessions,
                     records |-> <<>>, imported |-> 0, duplicates |-> 0,
                     errors |-> 0, progress |-> <<>>])
    IN  [done EXCEPT !.progress =
            IF options.onProgress THEN Append(@, Len(externals)) ELSE @]
        @@ [total |-> Len(externals)]

NoMigration ==
    [op |-> "none", externals |-> <<>>, total |-> 0, imported |-> 0,
     duplicates |-> 0, errors |-> 0, records |-> <<>>, progress |-> <<>>]

NoMigrationInput ==
    [externals |-> <<>>,
     options |-> [targetProject |-> "imported-data",
                  memorySessionId |-> "omitted", onProgress |-> FALSE,
                  continueOnError |-> "omitted", dryRun |-> FALSE]]

MigrationInputs ==
    [externals : SeqsUpTo(ExternalRecords, MaxExternals) \ {<<>>},
     options : MigrationOptions]

\* a Store that holds the caller's session and no observation
MigStart ==
    /\ migInput \in MigrationInputs
    /\ sdk_sessions = {GivenSession}
    /\ observations = <<>>
    /\ clock = 1
    /\ migCalls = 0
    /\ migResult = NoMigration

\* time passes between two calls
Tick ==
    /\ 0 < migCalls /\ migCalls < MaxMigrations
    /\ clock < MaxClock
    /\ clock' = clock + 1
    /\ UNCHANGED <<migInput, sdk_sessions, observations, migCalls, migResult>>
    /\ MigFrame

\* the clock readings of n consecutive records: each is the one before or
\* the millisecond after
RECURSIVE ClockReadings(_, _)
ClockReadings(t, n) ==
    IF n = 0 THEN {<<>>}
    ELSE UNION {{<<u>> \o rest : rest \in ClockReadings(u, n - 1)} :
                   u \in {t, IF t < MaxClock THEN t + 1 ELSE t}}

MigrateRecord(i) ==
    /\ migCalls < MaxMigrations
    /\ i \in DOMAIN migInput.externals
    /\ LET r == migrateRecord(migInput.externals[i], migInput.options,
                              observations, sdk_sessions, clock)
       IN  /\ observations' = r.observations
           /\ sdk_sessions' = r.sdk_sessions
           /\ migResult' =
                [op |-> "record", externals |-> <<migInput.externals[i]>>,
                 total |-> 1, imported |-> 0, duplicates |-> 0, errors |-> 0,
                 records |-> <<MigrationRecordResult(r)>>, progress |-> <<>>]
    /\ migCalls' = migCalls + 1
    /\ UNCHANGED <<migInput, clock>>
    /\ MigFrame

MigrateBatch(nows) ==
    /\ migCalls < MaxMigrations
    /\ nows \in ClockReadings(clock, Len(migInput.externals))
    /\ LET r == migrateBatch(migInput.externals, migInput.options,
                             observations, sdk_sessions, nows)
       IN  /\ observations' = r.observations
           /\ sdk_sessions' = r.sdk_sessions
           /\ migResult' =
                [op |-> "batch", externals |-> migInput.externals,
                 total |-> r.total, imported |-> r.imported,
                 duplicates |-> r.duplicates, errors |-> r.errors,
                 records |-> r.records, progress |-> r.progress]
    /\ clock' = nows[Len(nows)]
    /\ migCalls' = migCalls + 1
    /\ UNCHANGED migInput
    /\ MigFrame

MigNext ==
    \/ Tick
    \/ \E i \in 1..MaxExternals : MigrateRecord(i)
    \/ \E nows \in SeqsUpTo(1..MaxClock, MaxExternals) : MigrateBatch(nows)

(***************************************************************************)
(* Replication: GitLfsSync (src/src/services/sync/GitLfsSync.ts) and the   *)
(* hook command of the CLI (src/src/cli/git-sync-command.ts)               *)
(***************************************************************************)
\* idleMs >= this.idlePushSeconds * 1000
MsPerSecond == 1000

\* the instants of the model, in milliseconds: one every half second
Times == {(k * MsPerSecond) \div 2 : k \in 0..MaxHalfSeconds}

IdleSettings == 0..MaxIdleSeconds

\* GitLfsSync.shouldAutoPush, called while Date.now() is t
shouldAutoPushIgnoringPending(auto, hasPending, idleSeconds, lastActivityTime, t) ==
    IF ~auto THEN FALSE
    ELSE t - lastActivityTime >= idleSeconds * MsPerSecond

shouldAutoPush(auto, hasPending, idleSeconds, lastActivityTime, t) ==
    IF ~auto \/ ~hasPending THEN FALSE
    ELSE t - lastActivityTime >= idleSeconds * MsPerSecond

\* GitLfsSync.commit: gitFails when one of its git commands throws
commit(hasPending, dirty, gitFails) ==
    IF gitFails
    THEN [pendingChanges |-> hasPending, worktreeDirty |-> dirty,
          result |-> FALSE, completed |-> FALSE]
    ELSE IF ~dirty
    THEN [pendingChanges |-> FALSE, worktreeDirty |-> FALSE,
          result |-> FALSE, completed |-> TRUE]
    ELSE [pendingChanges |-> FALSE, worktreeDirty |-> FALSE,
          result |-> TRUE, completed |-> TRUE]

\* GitLfsSync.push: hasRemote when `git remote` lists this.remote
push(hasPending, dirty, hasRemote, commitFails, pushFails) ==
    IF ~hasRemote
    THEN [pendingChanges |-> hasPending, worktreeDirty |-> dirty,
          result |-> FALSE, completed |-> FALSE]
    ELSE [commit(hasPending, dirty, commitFails) EXCEPT !.result = ~pushFails]

\* GitLfsSync.pushIfChanged
pushIfChanged(hasPending, dirty, statusFails, hasRemote, commitFails, pushFails) ==
    IF ~hasPending /\ (statusFails \/ ~dirty)
    THEN [pendingChanges |-> hasPending, worktreeDirty |-> dirty,
          result |-> FALSE, completed |-> FALSE]
    ELSE push(hasPending, dirty, hasRemote, commitFails, pushFails)

\* how a call of exportDatabase ends: it throws before it copies anything,
\* it throws after the copy, or it returns
ExportOutcomes == {"source not found", "metadata not written", "exported"}

\* a call, the instant it was made at, its argument when it is
\* shouldAutoPush, and what it returned (TRUE when it returned nothing)
NoSyncCall ==
    [op |-> "none", at |-> 0, lastActivityTime |-> 0, result |-> FALSE]

SyncReturned(op, result) ==
    [op |-> op, at |-> nowMs, lastActivityTime |-> 0, result |-> result]

\* new GitLfsSync(config) over an export directory that may hold
\* uncommitted files
SyncStart ==
    /\ autoPush \in BOOLEAN
    /\ idlePushSeconds \in IdleSettings
    /\ pendingChanges = FALSE
    /\ worktreeDirty \in BOOLEAN
    /\ lastCompleted = "none"
    /\ nowMs = 0
    /\ lastSync = NoSyncCall

ExportDatabase(how) ==
    /\ worktreeDirty' = (worktreeDirty \/ how # "source not found")
    /\ pendingChanges' = (pendingChanges \/ how = "exported")
    /\ lastCompleted' = IF how = "exported" THEN "export" ELSE lastCompleted
    /\ lastSync' = SyncReturned("exportDatabase", how = "exported")
    /\ UNCHANGED <<autoPush, idlePushSeconds, nowMs, hookRun>>
    /\ CliFrame

SyncUpdate(op, r) ==
    /\ pendingChanges' = r.pendingChanges
    /\ worktreeDirty' = r.worktreeDirty
    /\ lastCompleted' = IF r.completed THEN "commit" ELSE lastCompleted
    /\ lastSync' = SyncReturned(op, r.result)
    /\ UNCHANGED <<autoPush, idlePushSeconds, nowMs, hookRun>>
    /\ CliFrame

Commit(gitFails) ==
    SyncUpdate("commit", commit(pendingChanges, worktreeDirty, gitFails))

Push(hasRemote, commitFails, pushFails) ==
    SyncUpdate("push", push(pendingChanges, worktreeDirty, hasRemote,
                            commitFails, pushFails))

PushIfChanged(statusFails, hasRemote, commitFails, pushFails) ==
    SyncUpdate("pushIfChanged",
               pushIfChanged(pendingChanges, worktreeDirty, statusFails,
                             hasRemote, commitFails, pushFails))

ShouldAutoPush(lastActivityTime) ==
    /\ lastSync' =
          [op |-> "shouldAutoPush", at |-> nowMs,
           lastActivityTime |-> lastActivityTime,
           result |-> shouldAutoPush(autoPush, pendingChanges,
                                     idlePushSeconds, lastActivityTime, nowMs)]
    /\ UNCHANGED <<autoPush, idlePushSeconds, pendingChanges, worktreeDirty,
                   lastCompleted, nowMs, hookRun>>
    /\ CliFrame

\* half a second passes
TimePasses ==
    /\ nowMs + MsPerSecond \div 2 \in Times
    /\ nowMs' = nowMs + MsPerSecond \div 2
    /\ UNCHANGED <<autoPush, idlePushSeconds, pendingChanges, worktreeDirty,
                   lastCompleted, lastSync, hookRun>>
    /\ CliFrame

\* HOOK_EXIT_CODES.SUCCESS
SUCCESS == 0

\* the steps of hookCommand that can throw
HookSteps ==
    {"getPlatformAdapter", "getEventHandler", "readJsonFromStdin",
     "normalizeInput", "execute", "formatOutput", "console.log"}

\* result.exitCode: undefined, or the code the handler asks for
HandlerExitCodes ==
    {[defined |-> FALSE, code |-> SUCCESS]}
    \cup {[defined |-> TRUE, code |-> c] : c \in 0..MaxExitCode}

hookCommandFailingOnError(thrownAt, exitCode) ==
    IF thrownAt = "nowhere"
    THEN [thrownAt |-> thrownAt, exitCode |-> exitCode, exited |-> TRUE,
          code |-> IF exitCode.defined THEN exitCode.code ELSE SUCCESS,
          stdout |-> TRUE, stderr |-> FALSE]
    ELSE [thrownAt |-> thrownAt, exitCode |-> exitCode, exited |-> TRUE,
          code |-> SUCCESS + 1, stdout |-> FALSE, stderr |-> TRUE]

\* hookCommand: thrownAt is the step that throws, exitCode what the
\* handler returns as result.exitCode when no step throws
hookCommand(thrownAt, exitCode) ==
    IF thrownAt = "nowhere"
    THEN [thrownAt |-> thrownAt, exitCode |-> exitCode, exited |-> TRUE,
          code |-> IF exitCode.defined THEN exitCode.code ELSE SUCCESS,
          stdout |-> TRUE, stderr |-> FALSE]
    ELSE [thrownAt |-> thrownAt, exitCode |-> exitCode, exited |-> TRUE,
          code |-> SUCCESS, stdout |-> FALSE, stderr |-> TRUE]

NoExitCode == [defined |-> FALSE, code |-> SUCCESS]

NoHookRun ==
    [thrownAt |-> "nowhere", exitCode |-> NoExitCode, exited |-> FALSE,
     code |-> SUCCESS, stdout |-> FALSE, stderr |-> FALSE]

HookCommand(thrownAt, exitCode) ==
    /\ thrownAt # "nowhere" => exitCode = NoExitCode
    /\ hookRun' = hookCommand(thrownAt, exitCode)
    /\ UNCHANGED <<autoPush, idlePushSeconds, pendingChanges, worktreeDirty,
                   lastCompleted, nowMs, lastSync>>
    /\ CliFrame

CliStart == SyncStart /\ hookRun = NoHookRun

CliNext ==
    \/ \E how \in ExportOutcomes : ExportDatabase(how)
    \/ \E gitFails \in BOOLEAN : Commit(gitFails)
    \/ \E hasRemote, commitFails, pushFails \in BOOLEAN :
           Push(hasRemote, commitFails, pushFails)
    \/ \E statusFails, hasRemote, commitFails, pushFails \in BOOLEAN :
           PushIfChanged(statusFails, hasRemote, commitFails, pushFails)
    \/ \E lastActivityTime \in Times : ShouldAutoPush(lastActivityTime)
    \/ TimePasses
    \/ \E thrownAt \in HookSteps \cup {"nowhere"},
          exitCode \in HandlerExitCodes : HookCommand(thrownAt, exitCode)

(***************************************************************************)
(* Federation constants (src/src/constants/federation.ts).  Weights are    *)
(* fixed-point numbers: a weight w stands for w / Scale.                   *)
(***************************************************************************)
Scale == 10000

\* a product and a quotient of two fixed-point numbers, rounded
Times10k(a, b) == (a * b + Scale \div 2) \div Scale
Over10k(a, b) == (2 * a * Scale + b) \div (2 * b)

\* Math.sqrt(5)
Sqrt5 ==
    CHOOSE r \in 2 * Scale .. 3 * Scale :
        r * r <= 5 * Scale * Scale /\ (r + 1) * (r + 1) > 5 * Scale * Scale

\* (1 + Math.sqrt(5)) / 2
PHI == (Scale + Sqrt5) \div 2

\* 1 / PHI
PHI_INVERSE == Over10k(Scale, PHI)

MAX_FEDERATION_REMOTES == 3

\* Math.pow(base, n) for a position n
RECURSIVE MathPow(_, _)
MathPow(base, n) == IF n = 0 THEN Scale ELSE Times10k(base, MathPow(base, n - 1))

Half == Scale \div 2
Quarter == Scale \div 4

PriorityDecayStrategies == {"golden", "exponential", "linear", "unknown"}

getPriorityWeightByStrategyNoUpperLimit(position, strategy) ==
    IF position < 0 THEN 0
    ELSE IF position = 0 THEN Scale
    ELSE IF strategy = "exponential" THEN MathPow(Half, position)
    ELSE IF strategy = "linear" THEN Scale - position * Quarter
    ELSE MathPow(PHI_INVERSE, position)

getPriorityWeightByStrategy(position, strategy) ==
    IF position < 0 \/ position > MAX_FEDERATION_REMOTES THEN 0
    ELSE IF position = 0 THEN Scale
    ELSE IF strategy = "golden" THEN MathPow(PHI_INVERSE, position)
    ELSE IF strategy = "exponential" THEN MathPow(Half, position)
    ELSE IF strategy = "linear" THEN Scale - position * Quarter
    ELSE MathPow(PHI_INVERSE, position)

\* the error of a validation: none, or what the message says
NoError0 == [kind |-> "none", maximum |-> 0]

validateFederationConfigOffByOne(remoteCount) ==
    IF remoteCount < 0
    THEN [valid |-> FALSE, error |-> [kind |-> "negative", maximum |-> 0]]
    ELSE IF remoteCount >= MAX_FEDERATION_REMOTES
    THEN [valid |-> FALSE,
          error |-> [kind |-> "maximum", maximum |-> MAX_FEDERATION_REMOTES]]
    ELSE [valid |-> TRUE, error |-> NoError0]

validateFederationConfig(remoteCount) ==
    IF remoteCount < 0
    THEN [valid |-> FALSE, error |-> [kind |-> "negative", maximum |-> 0]]
    ELSE IF remoteCount > MAX_FEDERATION_REMOTES
    THEN [valid |-> FALSE,
          error |-> [kind |-> "maximum", maximum |-> MAX_FEDERATION_REMOTES]]
    ELSE [valid |-> TRUE, error |-> NoError0]

Positions == (0 - MaxPosition)..MaxPosition
RemoteCounts == (0 - MaxRemoteCount)..MaxRemoteCount

NoFederationCall ==
    [op |-> "none", weight |-> 0, valid |-> FALSE, error |-> NoError0]

FedStart ==
    /\ fedInput \in [position : Positions,
                     strategy : PriorityDecayStrategies,
                     remoteCount : RemoteCounts]
    /\ fedResult = NoFederationCall

GetPriorityWeightByStrategy ==
    /\ fedResult' =
          [op |-> "getPriorityWeightByStrategy",
           weight |-> getPriorityWeightByStrategy(fedInput.position,
                                                  fedInput.strategy),
           valid |-> FALSE, error |-> NoError0]
    /\ UNCHANGED fedInput
    /\ FedFrame

ValidateFederationConfig ==
    /\ LET r == validateFederationConfig(fedInput.remoteCount)
       IN  fedResult' = [op |-> "validateFederationConfig", weight |-> 0,
                         valid |-> r.valid, error |-> r.error]
    /\ UNCHANGED fedInput
    /\ FedFrame

FedNext == GetPriorityWeightByStrategy \/ ValidateFederationConfig

(***************************************************************************)
(* Specifications                                                          *)
(***************************************************************************)
TruncIdle ==
    /\ tHistory = <<>> /\ maxCtxSetting = <<>> /\ maxTokSetting = <<>>
    /\ tSent = <<>> /\ tQueried = FALSE

AgentIdle ==
    /\ AgentStart
    /\ conversationHistory = <<>> /\ memorySessionId = "null"
    /\ lastPromptNumber = 1 /\ fallbackAgent = FALSE

RegistryIdle == RegistryStart /\ alive = {}

VectorIdle == VectorStart /\ vBackend = "chroma" /\ providerUp

CollIdle == CollStart /\ collBackend = "chroma"

MigIdle ==
    /\ migInput = NoMigrationInput /\ sdk_sessions = {GivenSession}
    /\ observations = <<>> /\ clock = 1 /\ migCalls = 0
    /\ migResult = NoMigration

CliIdle ==
    /\ CliStart /\ ~autoPush /\ idlePushSeconds = 0 /\ ~worktreeDirty

FedIdle ==
    /\ fedInput = [position |-> 0, strategy |-> "golden", remoteCount |-> 0]
    /\ fedResult = NoFederationCall

GranIdle == granInput = NoGranulation /\ granDocs = <<>> /\ granDone = FALSE

TruncInit ==
    /\ TruncStart
    /\ GuardStart
    /\ AgentIdle
    /\ RegistryIdle
    /\ VectorIdle
    /\ GranIdle
    /\ CollIdle
    /\ MigIdle
    /\ CliIdle
    /\ FedIdle
TruncNext == TruncPush \/ TruncQuery
SpecTrunc == TruncInit /\ [][TruncNext]_vars

GuardInit ==
    /\ GuardStart
    /\ TruncIdle
    /\ AgentIdle
    /\ RegistryIdle
    /\ VectorIdle
    /\ GranIdle
    /\ CollIdle
    /\ MigIdle
    /\ CliIdle
    /\ FedIdle
SpecGuard == GuardInit /\ [][GuardNext]_vars

AgentInit ==
    /\ AgentStart
    /\ TruncIdle
    /\ GuardStart
    /\ RegistryIdle
    /\ VectorIdle
    /\ GranIdle
    /\ CollIdle
    /\ MigIdle
    /\ CliIdle
    /\ FedIdle
SpecAgent == AgentInit /\ [][AgentNext]_vars

RegistryInit ==
    /\ RegistryStart
    /\ TruncIdle
    /\ GuardStart
    /\ AgentIdle
    /\ VectorIdle
    /\ GranIdle
    /\ CollIdle
    /\ MigIdle
    /\ CliIdle
    /\ FedIdle
SpecRegistry == RegistryInit /\ [][RegistryNext]_vars
SpecReaper == RegistryInit /\ [][ReaperNext]_vars
SpecSupervisor == RegistryInit /\ [][SupervisorNext]_vars

VectorInit ==
    /\ VectorStart
    /\ TruncIdle
    /\ GuardStart
    /\ AgentIdle
    /\ RegistryIdle
    /\ GranIdle
    /\ CollIdle
    /\ MigIdle
    /\ CliIdle
    /\ FedIdle
SpecVector == VectorInit /\ [][VectorNext]_vars

GranInit ==
    /\ GranStart
    /\ TruncIdle
    /\ GuardStart
    /\ AgentIdle
    /\ RegistryIdle
    /\ VectorIdle
    /\ CollIdle
    /\ MigIdle
    /\ CliIdle
    /\ FedIdle
SpecGranulation == GranInit /\ [][GranNext]_vars

CollInit ==
    /\ CollStart
    /\ TruncIdle
    /\ GuardStart
    /\ AgentIdle
    /\ RegistryIdle
    /\ VectorIdle
    /\ GranIdle
    /\ MigIdle
    /\ CliIdle
    /\ FedIdle
SpecCollection == CollInit /\ [][CollNext]_vars

MigInit ==
    /\ MigStart
    /\ TruncIdle
    /\ GuardStart
    /\ AgentIdle
    /\ RegistryIdle
    /\ VectorIdle
    /\ GranIdle
    /\ CollIdle
    /\ CliIdle
    /\ FedIdle
SpecMigrator == MigInit /\ [][MigNext]_vars

CliInit ==
    /\ CliStart
    /\ TruncIdle
    /\ GuardStart
    /\ AgentIdle
    /\ RegistryIdle
    /\ VectorIdle
    /\ GranIdle
    /\ CollIdle
    /\ MigIdle
    /\ FedIdle
SpecCli == CliInit /\ [][CliNext]_vars

FedInit ==
    /\ FedStart
    /\ TruncIdle
    /\ GuardStart
    /\ AgentIdle
    /\ RegistryIdle
    /\ VectorIdle
    /\ GranIdle
    /\ CollIdle
    /\ MigIdle
    /\ CliIdle
SpecFederation == FedInit /\ [][FedNext]_vars

(***************************************************************************)
(* Claims about the subprocess supervisor                                  *)
(***************************************************************************)
\* C12: after killSessionObservers(s) has returned, s has no entry in the
\* registry, and the call did not throw: not when pids of the session were
\* already dead, and not when the session was never registered.
C12_KilledSessionRemoved ==
    (lastCall.op \in {"kill", "killAll"} /\ lastCall.session # 0) =>
        /\ lastCall.session \notin DOMAIN registry
        /\ ~lastCall.threw

\* session 1, registered with a live and a dead pid, has been killed: its
\* entry is gone, the live process was signalled, session 2 is untouched
C12_Witness ==
    /\ lastCall = Returned("kill", 1, FALSE, 0, 0)
    /\ registrations = 2
    /\ DOMAIN registry = {2} /\ registry[2] = {2}
    /\ alive = {1} /\ "SIGTERM" \in signals[1]

\* C13: when killAll returns and no registerObservers call ran while it
\* was waiting, the registry is empty and every pid that was registered
\* when it was called has been sent SIGTERM or is not a running process; a
\* killAll on an empty registry changes nothing.
C13_KillAllEmptiesRegistry ==
    [][(killAllState'.pc = "done" /\ killAllState' # killAllState) =>
          /\ ~killAllState'.disturbed =>
                /\ registry' = EmptyMap
                /\ \A p \in killAllState'.pids :
                      p \notin alive' \/ "SIGTERM" \in signals'[p]
          /\ (killAllState.pc # "running" /\ registry = EmptyMap) =>
                /\ registry' = registry /\ signals' = signals
                /\ killing' = killing /\ ~lastCall'.threw]_vars

\* killAll has returned after waiting: two pids were registered, one of a
\* dead process and one of a process that is still running and has been
\* sent SIGTERM and SIGKILL
C13_Witness ==
    /\ lastCall.op = "killAll" /\ lastCall.session # 0
    /\ killAllState.pc = "done" /\ ~killAllState.disturbed
    /\ killAllState.pids = {1, 2}
    /\ registry = EmptyMap
    /\ alive = {1} /\ signals[1] = {"SIGTERM", "SIGKILL"}

\* C14: the prune of a reap cycle leaves no pid of a dead process in the
\* registry and counts the pids it removed; when the cycle ends, with no
\* registerObservers call made meanwhile, the registry holds no pid of a
\* process that was dead when the cycle pruned, and the cycle reports the
\* count of its prune.
C14_ReapPrunesDead ==
    [][/\ (reapState.pc = "idle" /\ reapState'.pc = "scanning") =>
             /\ \A p \in getAllPids(registry') : p \in alive
             /\ \A s \in DOMAIN registry : registry[s] \cap alive = {} =>
                    s \notin DOMAIN registry'
             /\ reapState'.pruned =
                    getAllPidsLength(registry) - getAllPidsLength(registry')
       /\ (reapState.pc = "scanned" /\ reapState'.pc = "idle") =>
             /\ ~reapState.disturbed =>
                    getAllPids(registry') \cap reapState.dead = {}
             /\ lastCall'.pruned = reapState.pruned]_vars

\* one registerObservers call with two pids of dead processes, then one
\* reap(): it reports 2 pruned and the registry is empty
C14_Witness ==
    /\ registrations = 1 /\ alive = {}
    /\ lastCall = Returned("reap", 0, FALSE, 2, 0)
    /\ registry = EmptyMap

\* C15: a pruneDeadPids call removes from every session exactly the pids of
\* processes that no longer exist, removes the sessions left without a pid,
\* and returns the number of pids it removed.
C15_PruneExactlyDead ==
    [][PruneDeadPids =>
          /\ DOMAIN registry' = {s \in DOMAIN registry : registry[s] \cap alive # {}}
          /\ \A s \in DOMAIN registry' : registry'[s] = registry[s] \cap alive
          /\ lastCall'.pruned =
                 getAllPidsLength(registry) - getAllPidsLength(registry')]_vars

\* a prune that removed the one pid of session 2 (dead) and with it the
\* session, and kept session 1 with the pid of its running process
C15_Witness ==
    /\ lastCall = Returned("prune", 0, FALSE, 1, 0)
    /\ registrations = 2
    /\ DOMAIN registry = {1} /\ registry[1] = {1} /\ alive = {1}

\* C16: at most one interval timer exists, and it exists exactly while the
\* reaper holds its handle; after start() (also a repeated one) there is one
\* timer, after stop() (also a repeated one) there is none.
C16_ReaperStartStopIdempotent ==
    /\ timers <= 1
    /\ interval <=> timers = 1
    /\ lastCall.op \in {"start", "start: no-op"} => timers = 1
    /\ lastCall.op \in {"stop", "stop: no-op"} => timers = 0

\* start() was called while the reaper was running
C16_Witness ==
    /\ lastCall.op = "start: no-op" /\ interval /\ timers = 1

\* C17: no failure to signal a pid escapes: killSessionObservers and the
\* reap cycle return without an error when pids are of dead processes, and
\* they still signal the other pids (every running process of a waiting
\* kill has SIGTERM, every running orphan of a cycle gets SIGTERM); a
\* periodic cycle that fails is caught by the timer callback, which leaves
\* the timer in place with the reaper ready for the next cycle.
C17_KillFailuresAbsorbed ==
    [][/\ lastCall'.op \in {"kill", "tick", "tick logged error"} => ~lastCall'.threw
       /\ \A k \in killing' : \A p \in k.pidArray :
             p \in alive' => "SIGTERM" \in signals'[p]
       /\ (reapState.pc = "scanned" /\ reapState'.pc = "idle") =>
             \A p \in reapState.discovered \ getAllPids(registry) :
                 p \in alive => "SIGTERM" \in signals'[p]
       /\ (reapState.pc = "scanning" /\ reapState'.pc = "idle" /\ reapState.periodic) =>
             /\ timers' = timers /\ interval' = interval
             /\ reapState' = ReapIdle]_vars

\* a kill of a session registered with a dead and a running process waits
\* for the running one, which it has signalled, and a periodic reap cycle
\* has failed and was logged while the timer stays active
C17_Witness ==
    /\ \E k \in killing :
          /\ k.pidArray = {1, 2}
          /\ k.session \in DOMAIN registry /\ registry[k.session] = {1}
    /\ alive = {1} /\ "SIGTERM" \in signals[1]
    /\ lastCall.op = "tick logged error" /\ timers = 1

\* C18: every session in the registry has at least one pid; a
\* registerObservers call adds the pids of its list to the session's set
\* (a pid already held, or listed twice, is held once) and leaves the other
\* sessions alone, and with an empty list it changes nothing.
C18_RegistryInvariant ==
    [][/\ \A s \in DOMAIN registry' : registry'[s] # {}
       /\ \A s \in RegSessions : \A pids \in PidLists :
             RegisterObservers(s, pids) =>
                IF pids = <<>> THEN registry' = registry
                ELSE /\ DOMAIN registry' = DOMAIN registry \cup {s}
                     /\ registry'[s] = PidsOf(pids) \cup
                            (IF s \in DOMAIN registry THEN registry[s] ELSE {})
                     /\ \A t \in DOMAIN registry \ {s} : registry'[t] = registry[t]
                     /\ Cardinality(registry'[s]) <= Cardinality(Pids)]_vars

\* session 1 was registered twice and holds each of its two pids once
C18_Witness ==
    /\ lastCall = Returned("register", 1, FALSE, 0, 0) /\ registrations = 2
    /\ DOMAIN registry = {1} /\ registry[1] = {1, 2}
    /\ getAllPidsLength(registry) = 2

(***************************************************************************)
(* Claims about the generator guard                                        *)
(***************************************************************************)
\* C1: while a generator is in flight further ensure-generator calls start
\* none: at most one generator per session is running, and after any burst
\* of calls on a session that has completed no generator, spawnCount is 1.
C1_DedupGuard ==
    \A s \in Sessions :
        /\ Cardinality(genRunning[s]) <= 1
        /\ (completions[s] = 0 /\ burstCalls[s] >= 1) => spawnCount[s] = 1

C1_Witness ==
    \E s \in Sessions :
        /\ completions[s] = 0 /\ burstCalls[s] = MaxCalls
        /\ spawnCount[s] = 1 /\ generatorPromise[s] # 0

\* C4: after a generator completed naturally with no pending work the
\* session's token is not cancelled, and the generator started after such a
\* completion is not born cancelled (it runs its work).
C4_FreshTokenAfterNaturalCompletion ==
    \A s \in Sessions :
        lastExit[s] = "natural" =>
            /\ generatorPromise[s] = 0 => ~abortController[s].aborted
            /\ generatorPromise[s] # 0 => ~lastGen[s].bornAborted

C4_Witness ==
    \E s \in Sessions :
        /\ lastExit[s] = "natural" /\ completions[s] = 1
        /\ generatorPromise[s] # 0 /\ lastGen[s].id = 2
        /\ ~lastGen[s].bornAborted
        /\ abortController[s].id = 1

\* C5: the slot is non-empty exactly while a generator is running, and each
\* burst of calls posted after a completion starts exactly one generator:
\* spawnCount is the number of completed generators plus one when calls have
\* been made since (2 after the second burst).
C5_SlotClearedAndRespawn ==
    \A s \in Sessions :
        /\ generatorPromise[s] # 0 <=> genRunning[s] # {}
        /\ spawnCount[s] = completions[s] + (IF burstCalls[s] >= 1 THEN 1 ELSE 0)
        /\ (completions[s] = 1 /\ burstCalls[s] >= 1) => spawnCount[s] = 2

C5_Witness ==
    \E s \in Sessions :
        /\ completions[s] = 1 /\ burstCalls[s] = 2
        /\ spawnCount[s] = 2 /\ generatorPromise[s] = 2

(***************************************************************************)
(* Claims about startSession                                               *)
(***************************************************************************)
Range(f) == {f[i] : i \in DOMAIN f}
IsPrefix(a, b) == Len(a) <= Len(b) /\ \A i \in 1..Len(a) : a[i] = b[i]
RunEnded == pc = "idle" /\ runs >= 1

\* C2: pending messages are taken from the iterator in enqueue order and one
\* at a time: every message taken before the newest one has had its turn
\* finished (its result processed, or its turn ended the run with an error),
\* results are processed in the order the messages were taken, and the
\* message in flight is the newest one taken.
C2_InOrderOneAtATime ==
    /\ \A i \in 1..Len(consumed) : consumed[i] = i
    /\ \A i \in 1..(Len(consumed) - 1) : consumed[i] \in Range(processed) \cup failed
    /\ \A i \in 1..Len(processed) : \A j \in 1..Len(processed) :
           i < j => processed[i] < processed[j]
    /\ Range(processed) \cap failed = {}
    /\ pc \in {"msgQuery", "msgProcess"} =>
           /\ current.id = consumed[Len(consumed)]
           /\ current.id \notin Range(processed)

C2_Witness ==
    /\ consumed = <<1, 2>> /\ processed = <<1>> /\ failed = {}
    /\ pc = "msgProcess" /\ current.id = 2 /\ runs = 1

\* C3: no agent response is handed to processAgentResponse while the
\* session's memorySessionId is still unset.
C3_IdAssignedBeforeProcessing ==
    \A c \in processCalls : c.memorySessionId # "null"

\* C6 as stated: a transient connectivity error with a fallback agent
\* configured hands the same session, its history intact, to the fallback
\* agent exactly once, and startSession does not reject.
C6_FallbackNeverRejects ==
    (RunEnded /\ caught.kind = "connect" /\ fallbackAgent) =>
        /\ fallbackCalls = 1
        /\ fallbackArg.sessionDbId = "session-1"
        /\ IsPrefix(atStart.conversationHistory, fallbackArg.conversationHistory)
        /\ fallbackArg.conversationHistory = conversationHistory
        /\ outcome = "resolved"

\* C6 amended: the same hand-off, exactly once and with nothing removed from
\* the history; startSession then settles as the fallback run settles: it
\* never rejects with the provider's connectivity error.
C6_FallbackHandOff ==
    (pc \in {"idle", "fallback"} /\ runs >= 1 /\ caught.kind = "connect" /\ fallbackAgent) =>
        /\ fallbackCalls = 1
        /\ fallbackArg.sessionDbId = "session-1"
        /\ IsPrefix(atStart.conversationHistory, fallbackArg.conversationHistory)
        /\ fallbackArg.conversationHistory = conversationHistory
        /\ thrown.kind # "connect"
        /\ RunEnded => outcome = fallbackOutcome

C6_Witness ==
    /\ RunEnded /\ caught.kind = "connect" /\ fallbackAgent
    /\ fallbackCalls = 1 /\ outcome = "resolved"
    /\ Len(atStart.conversationHistory) = 2
    /\ Len(fallbackArg.conversationHistory) > 3

\* C7: an HTTP 400 answer is not transient: with a fallback agent configured
\* the fallback agent is not invoked and startSession rejects with
\* "LM Studio API error: 400 - <body>".
C7_NoFallbackOn4xx ==
    (runs >= 1 /\ caught.kind = "http") =>
        /\ fallbackCalls = 0
        /\ pc = "idle"
        /\ outcome = "rejected"
        /\ thrown.message = "LM Studio API error: 400 - Invalid argument"

C7_Witness ==
    /\ RunEnded /\ fallbackAgent /\ caught.kind = "http"
    /\ outcome = "rejected" /\ fallbackCalls = 0

\* C10: once a session has a memory_session_id it never changes, and
\* updateMemorySessionId is not called again, over any number of runs.
C10_MemorySessionIdAssignedOnce ==
    [][memorySessionId # "null" =>
          /\ memorySessionId' = memorySessionId
          /\ dbMemorySessionId' = dbMemorySessionId
          /\ updateCalls' = updateCalls]_vars

\* a second run that has handled its init response on a session whose id
\* was synthesized by the first run
C10_Witness ==
    /\ runs = 2 /\ pc = "initProcess"
    /\ atStart.memorySessionId = "lmstudio-test-session"
    /\ memorySessionId = "lmstudio-test-session"
    /\ dbMemorySessionId = "lmstudio-test-session"
    /\ updateCalls = 1

\* C11: when the request of a pending message fails with an error that is
\* not a cancellation and is not handed to a fallback agent, startSession
\* rejects with that error, the message's response is never handed to
\* processAgentResponse (the message is not processed), and the failed
\* message is the last one taken from the iterator in that run.
C11_FailedTurnCommitsNothing ==
    /\ \A m \in failed :
           /\ m \notin Range(processed)
           /\ \A c \in processCalls : c.message # m
    /\ (runs >= 1 /\ current.id \in failed
           /\ CatchDecision(caught, fallbackAgent) = "throw") =>
           /\ pc = "idle"
           /\ outcome = "rejected"
           /\ thrown = caught
           /\ consumed[Len(consumed)] = current.id

\* the first of two pending messages failed to connect with no fallback
\* agent: the run is over and the second message is still pending
C11_Witness ==
    /\ RunEnded /\ ~fallbackAgent /\ caught.kind = "connect"
    /\ outcome = "rejected" /\ current.id = 1 /\ failed = {1}
    /\ consumed = <<1>> /\ Len(pending) = 1 /\ processed = <<>>

(***************************************************************************)
(* Claims about truncation                                                 *)
(***************************************************************************)
tHasSystem == Len(tHistory) > 0 /\ tHistory[1].role = "system"
tMaxCtx == MAX_CONTEXT_MESSAGES(maxCtxSetting)
tMaxTok == MAX_ESTIMATED_TOKENS(maxTokSetting)
\* the sum of the per-message estimates of the request
tSentTokens == SumTokens(tSent, Len(tSent))
\* ceil(chars / 4) over all characters of the request
tSentChars == LET RECURSIVE Chars(_)
                  Chars(n) == IF n = 0 THEN 0 ELSE Chars(n - 1) + Len(tSent[n].content)
              IN  Chars(Len(tSent))
tSentJoinedTokens ==
    (tSentChars + CHARS_PER_TOKEN_ESTIMATE - 1) \div CHARS_PER_TOKEN_ESTIMATE

\* C8: whenever the history starts with a system message, the request built
\* from it starts with that same message (role system, identical content),
\* for every value of the two caps; with MAX_CONTEXT_MESSAGES = 2 and a
\* history of 7 messages (the token cap admitting the system message and the
\* newest message, as in the test) the request has exactly 2 messages.
C8_SystemMessagePreserved ==
    (tQueried /\ tHasSystem) =>
        /\ Len(tSent) >= 1
        /\ tSent[1] = [role |-> "system", content |-> tHistory[1].content]
        /\ ( /\ Len(tHistory) = 7
             /\ tMaxCtx = 2
             /\ estimateTokens(tHistory[1].content)
                  + estimateTokens(tHistory[7].content) <= tMaxTok )
            => Len(tSent) = 2

C8_Witness ==
    /\ tQueried /\ tHasSystem
    /\ Len(tHistory) = 7 /\ tMaxCtx = 2 /\ tMaxTok = 3
    /\ tHistory[1].content = "abcde"
    /\ tHistory[7] = [role |-> "user", content |-> "abcd"]
    /\ Len(tSent) = 2

\* C9 as stated: after truncation the request has at most
\* MAX_CONTEXT_MESSAGES messages and an estimated token count of at most
\* MAX_TOKENS, for every input history (caps taken positive, as configured).
C9_BothBoundsAlways ==
    (tQueried /\ tMaxCtx >= 1 /\ tMaxTok >= 1) =>
        /\ Len(tSent) <= tMaxCtx
        /\ tSentTokens <= tMaxTok
        /\ tSentJoinedTokens <= tMaxTok

\* C9 amended: with both caps positive, the request never has more than
\* MAX_CONTEXT_MESSAGES messages, and its estimated tokens stay within
\* MAX_TOKENS whenever the system message at index 0 (if there is one) fits
\* in MAX_TOKENS by itself.
C9_BoundsUnlessSystemTooLarge ==
    (tQueried /\ tMaxCtx >= 1 /\ tMaxTok >= 1) =>
        /\ Len(tSent) <= tMaxCtx
        /\ (tHasSystem => estimateTokens(tHistory[1].content) <= tMaxTok)
            => (tSentTokens <= tMaxTok /\ tSentJoinedTokens <= tMaxTok)

\* a history over both caps, cut down to a request that meets both
C9_Witness ==
    /\ tQueried /\ tHasSystem
    /\ tMaxCtx = 3 /\ tMaxTok = 3
    /\ Len(tHistory) > tMaxCtx
    /\ SumTokens(tHistory, Len(tHistory)) > tMaxTok
    /\ Len(tSent) = 2 /\ tSentTokens = 3

(***************************************************************************)
(* Claims about the vector backends                                        *)
(***************************************************************************)
\* the step in which an ensureBackfilled run settles
BackfillRunEnds == lastBackfill'.run # lastBackfill.run

\* every document id the granulation rule expects for the first n Store
\* rows is the id of a document of the vector store
AllExpectedPresent(n, store) ==
    \A i \in 1..n : expectedIds(storeRows[i]) \subseteq existingIds(store)

\* C19: ensureBackfilled is idempotent and safe to interrupt and resume, in
\* both backends: when a run has completed, every document id expected for
\* every Store row it started from is in the vector store, also when an
\* earlier run was cut short after one of its batches; and a run that
\* starts with every expected document present adds no document.
C19_BackfillIdempotentResumable ==
    [][/\ (BackfillRunEnds /\ lastBackfill'.outcome = "resolved")
            => AllExpectedPresent(lastBackfill'.rows, vectorDocs')
       /\ (EnsureBackfilled /\ AllExpectedPresent(Len(storeRows), vectorDocs))
            => (vectorDocs' = vectorDocs /\ backfill'.pc = "idle")]_vars

\* C20: vector sync is best-effort and reconciled later: an observation
\* whose sync failed keeps its Store row, and when the next ensureBackfilled
\* run with a working provider has ended, every expected document of that
\* observation is stored with an embedding and is returned by the search.
C20_FailedSyncReconciled ==
    [][/\ \A id \in syncFailed' : id \in DOMAIN storeRows'
       /\ (vBackend = "sqlite-vec" /\ BackfillRunEnds /\ lastBackfill'.providerOk)
            => \A i \in 1..lastBackfill'.rows :
                  i \in syncFailed
                     => expectedIds(storeRows[i]) \subseteq bruteForceSearch(vectorDocs')]_vars

(***************************************************************************)
(* Claims about the granulation                                            *)
(***************************************************************************)
GranIds == {granDocs[i].id : i \in DOMAIN granDocs}

OneIf(cond) == IF cond THEN 1 ELSE 0

RECURSIVE CountTruthy(_, _)
CountTruthy(fields, k) ==
    IF k = 0 THEN 0 ELSE OneIf(Truthy(fields[k])) + CountTruthy(fields, k - 1)

\* C24: an observation yields one document per non-empty field among
\* narrative and text plus one per fact, with ids obs_<id>_narrative,
\* obs_<id>_text and obs_<id>_fact_<index>; a summary yields one per
\* non-empty field among its six, with id summary_<id>_<field>; a narrative
\* and two facts yield exactly three documents; the ids of a row are distinct.
C24_GranulationRule ==
    /\ Cardinality(GranIds) = Len(granDocs)
    /\ (granDone /\ granInput.kind = "observation") =>
          LET row == granInput.row
              facts == parseFacts(row.facts)
              prefix == "obs_" \o ToString(row.id)
          IN /\ Len(granDocs) = OneIf(Truthy(row.narrative))
                                  + OneIf(Truthy(row.text)) + Len(facts)
             /\ Truthy(row.narrative) <=> (prefix \o "_narrative") \in GranIds
             /\ Truthy(row.text) <=> (prefix \o "_text") \in GranIds
             /\ \A index \in 0..(MaxFacts + 1) :
                   index < Len(facts)
                      <=> (prefix \o "_fact_" \o ToString(index)) \in GranIds
             /\ \A i \in DOMAIN granDocs : granDocs[i].sqlite_id = row.id
             /\ (Truthy(row.narrative) /\ ~Truthy(row.text) /\ Len(facts) = 2)
                   => [i \in DOMAIN granDocs |-> granDocs[i].id]
                        = <<prefix \o "_narrative", prefix \o "_fact_0",
                            prefix \o "_fact_1">>
    /\ (granDone /\ granInput.kind = "summary") =>
          LET row == granInput.row
          IN /\ Len(granDocs) = CountTruthy(row.fields, Len(SummaryFields))
             /\ \A k \in DOMAIN SummaryFields :
                   Truthy(row.fields[k])
                      <=> ("summary_" \o ToString(row.id) \o "_" \o SummaryFields[k])
                             \in GranIds
             /\ \A i \in DOMAIN granDocs : granDocs[i].sqlite_id = row.id

\* an observation with a narrative, a text and two facts was split into
\* four documents
C24_Witness ==
    /\ granDone
    /\ granInput.kind = "observation"
    /\ Truthy(granInput.row.narrative) /\ Truthy(granInput.row.text)
    /\ Len(parseFacts(granInput.row.facts)) = 2
    /\ Len(granDocs) = 4

(***************************************************************************)
(* Claims about sync and query                                             *)
(***************************************************************************)
\* C21: re-syncing is an upsert by document id: a sync call made while the
\* provider answers succeeds, the first time and every later time, and
\* leaves exactly one document per composed id, holding the content of
\* that latest sync, in every backend.
C21_ResyncIsUpsert ==
    (lastVector.op = "sync" /\ lastVector.up) =>
        /\ ~lastVector.threw
        /\ \A d \in SeqRange(SyncDocuments(lastVector.call)) :
              /\ Cardinality({v \in collection : v.id = d.id}) = 1
              /\ \A v \in collection : v.id = d.id => v.document = d.document

\* C22: the results of query are ordered by increasing distance with at
\* most one result per sqlite_id; every owning row (a row of one Store
\* table) with a document among the nearest documents has a result, and
\* that result is the row's nearest document.
C22_QueryBestPerRow ==
    (lastVector.op = "query" /\ ~lastVector.threw) =>
        LET results == lastVector.results
            nearest == lastVector.nearest
        IN /\ \A i, j \in DOMAIN results :
                 i < j => /\ results[i].distance <= results[j].distance
                          /\ results[i].sqliteId # results[j].sqliteId
           /\ \A n \in DOMAIN nearest :
                 \E i \in DOMAIN results :
                    /\ results[i].docType = nearest[n].docType
                    /\ results[i].sqliteId = nearest[n].sqliteId
                    /\ results[i].distance <= nearest[n].distance

\* C23: filters are conjunctive in every backend: each result of query is
\* a document whose project, docType and memorySessionId equal the values
\* given and whose created_at_epoch lies between minEpoch and maxEpoch.
C23_FiltersConjunctive ==
    (lastVector.op = "query" /\ ~lastVector.threw) =>
        \A i \in DOMAIN lastVector.results :
           \E v \in collection :
              /\ v.id = lastVector.results[i].id
              /\ SatisfiesFilters(v, lastVector.filters)

(***************************************************************************)
(* Claims about the migration pipeline                                     *)
(***************************************************************************)
\* a step that is one call of migrateRecord or of migrateBatch
MigrationCall(op) == migCalls' = migCalls + 1 /\ migResult'.op = op

\* the rows of a table that hold the dedup key of an external record
\* migrated into the caller's session while Date.now() is t
RowsOf(table, external, t) ==
    {i \in 1..Len(table) :
        DedupKey(table[i]) = <<GivenSession, transform(external, t).title,
                               transform(external, t).created_at_epoch>>}

\* C25: a record migrated into a given memory_session_id is imported
\* (imported = true, one row added) when the Store holds no row with its
\* (memory_session_id, title, created_at_epoch) and is a duplicate
\* (imported = false, no row added) when it does; either way localId is the
\* id of the one row that holds the key.  So the same record migrated twice
\* in a row reports true then false with the same local id.
C25_ImportDedup ==
    [][(/\ MigrationCall("record")
        /\ migInput.options.memorySessionId = "given"
        /\ ~migInput.options.dryRun
        /\ migResult'.records[1].success)
       => LET external == migResult'.externals[1]
              result == migResult'.records[1]
              before == RowsOf(observations, external, clock)
              after == RowsOf(observations', external, clock)
          IN  /\ result.imported = (before = {})
              /\ Cardinality(after) = 1
              /\ \A i \in after : observations'[i].id = result.localId
              /\ Len(observations') =
                     Len(observations) + (IF result.imported THEN 1 ELSE 0)
              /\ (/\ migResult.op = "record"
                  /\ migResult.externals = migResult'.externals
                  /\ external.timestamp # Absent)
                 => /\ ~result.imported
                    /\ result.localId = migResult.records[1].localId
                    /\ observations' = observations]_vars

\* the second of two migrateRecord calls on one record with a timestamp
C25_Witness ==
    /\ migCalls = 2
    /\ Len(migInput.externals) = 1
    /\ migInput.externals[1].timestamp # Absent
    /\ migInput.options.memorySessionId = "given"
    /\ ~migInput.options.dryRun
    /\ migResult.op = "record"
    /\ migResult.records[1] =
          [success |-> TRUE, imported |-> FALSE, localId |-> 1]
    /\ Len(observations) = 1

\* the options of the documented usage: targetProject and onProgress only
DocumentedUsage(options) ==
    /\ options.memorySessionId = "omitted"
    /\ options.onProgress
    /\ options.continueOnError = "omitted"
    /\ ~options.dryRun

\* C26: when migrateBatch is run a second time on the same records with the
\* options of the documented usage, after a first run that imported every
\* record, it imports nothing and reports every record as a duplicate.
C26_RerunSkipsImported ==
    [][(/\ MigrationCall("batch")
        /\ migResult.op = "batch"
        /\ DocumentedUsage(migInput.options)
        /\ migResult.errors = 0
        /\ \A i \in DOMAIN migInput.externals :
               migInput.externals[i].timestamp # Absent)
       => /\ migResult'.imported = 0
          /\ migResult'.duplicates = migResult'.total
          /\ observations' = observations]_vars

\* C27: when continueOnError is omitted, migrateBatch attempts every record:
\* records has one entry per external record and imported + duplicates +
\* errors equals total.
C27_ContinueOnErrorDefault ==
    [][(/\ MigrationCall("batch")
        /\ migInput.options.continueOnError = "omitted")
       => /\ migResult'.total = Len(migInput.externals)
          /\ Len(migResult'.records) = migResult'.total
          /\ migResult'.imported + migResult'.duplicates
                 + migResult'.errors = migResult'.total]_vars

(***************************************************************************)
(* Claims about replication and the hook command                           *)
(***************************************************************************)
\* C28: shouldAutoPush(last_activity) returns true exactly when auto-push
\* is enabled, a database was exported since the last commit, and the time
\* since last_activity is at least idle_push_seconds; so it returns false
\* when auto-push is disabled or nothing was exported since the last commit,
\* whatever the idle time.
C28_ShouldAutoPush ==
    lastSync.op = "shouldAutoPush"
        => LET elapsedMs == lastSync.at - lastSync.lastActivityTime
           IN  lastSync.result =
                  (/\ autoPush
                   /\ lastCompleted = "export"
                   /\ ~(elapsedMs < idlePushSeconds * MsPerSecond))

\* an auto-push that is due after a second of idle time
C28_Witness ==
    /\ lastSync.op = "shouldAutoPush"
    /\ lastSync.result
    /\ idlePushSeconds = 1
    /\ lastCompleted = "export"

C30_ContinuationRequest ==
    (/\ pc = "initQuery"
     /\ lastPromptNumber > 1
     /\ Len(atStart.conversationHistory) = 2
     /\ atStart.conversationHistory[1].role = "user"
     /\ atStart.conversationHistory[2].role = "assistant")
        => /\ Len(sent) = 3
           /\ sent[1] = atStart.conversationHistory[1]
           /\ sent[2] = atStart.conversationHistory[2]
           /\ sent[3].content = "continuation prompt"
           /\ <<sent[1].role, sent[2].role, sent[3].role>>
                 = <<"user", "assistant", "user">>

(***************************************************************************)
(* Claims about the federation constants                                   *)
(***************************************************************************)
\* |w - expected / 1000| <= 0.001, for a weight w and thousandths expected
Within1e3(w, expected) ==
    LET d == w * 1000 - expected * Scale
    IN  d <= Scale /\ 0 - d <= Scale

ExpectedThousandths ==
    [golden |-> <<618, 382, 236>>,
     exponential |-> <<500, 250, 125>>,
     linear |-> <<750, 500, 250>>]

\* C31: position 0 has weight 1.0; positions 1, 2, 3 have weights 0.618,
\* 0.382, 0.236 (golden, within 1e-3), 0.5, 0.25, 0.125 (exponential) and
\* 0.75, 0.5, 0.25 (linear); a position outside 0..3 has weight 0; in each
\* schedule the weight strictly decreases with the position.
C31_PriorityWeights ==
    fedResult.op = "getPriorityWeightByStrategy"
        => LET position == fedInput.position
               strategy == fedInput.strategy
               w == fedResult.weight
           IN  /\ position = 0 => w = Scale
               /\ position \notin 0..3 => w = 0
               /\ (position \in 1..3 /\ strategy = "golden")
                     => Within1e3(w, ExpectedThousandths.golden[position])
               /\ (position \in 1..3 /\ strategy = "exponential")
                     => w * 1000
                          = ExpectedThousandths.exponential[position] * Scale
               /\ (position \in 1..3 /\ strategy = "linear")
                     => w * 1000 = ExpectedThousandths.linear[position] * Scale
               /\ \A earlier \in 0..3 :
                     earlier < position
                        => getPriorityWeightByStrategy(earlier, strategy) > w

\* the weight of the third remote under the golden schedule
C31_Witness ==
    /\ fedResult.op = "getPriorityWeightByStrategy"
    /\ fedInput.position = 3
    /\ fedInput.strategy = "golden"
    /\ fedResult.weight > 0

\* C32: validateFederationConfig(n) is valid exactly when 0 <= n <= 3; the
\* error for more than 3 remotes names the maximum 3, and a negative count
\* is rejected with an error too.
C32_ValidateFederationConfig ==
    fedResult.op = "validateFederationConfig"
        => LET n == fedInput.remoteCount
           IN  /\ fedResult.valid = (0 <= n /\ n <= 3)
               /\ fedResult.valid = (fedResult.error.kind = "none")
               /\ n > 3 => /\ fedResult.error.kind = "maximum"
                           /\ fedResult.error.maximum = 3
               /\ n < 0 => fedResult.error.kind = "negative"

\* four remotes are rejected
C32_Witness ==
    /\ fedResult.op = "validateFederationConfig"
    /\ fedInput.remoteCount = 4
    /\ ~fedResult.valid
    /\ fedResult.error.maximum = 3

(***************************************************************************)
(* Claims about killSessionObservers and the reap cycle                    *)
(***************************************************************************)
PidsRegistered(reg, sessionDbId) ==
    IF sessionDbId \in DOMAIN reg THEN reg[sessionDbId] ELSE {}

\* C33: when a killSessionObservers call ends, the pids it removes from the
\* registry are pids of its pidArray, which it has signalled or found dead:
\* a pid registered for the session during the wait is not dropped.
C33_NoTrackedPidLost ==
    [][\A k \in killing :
          k \notin killing'
             => (PidsRegistered(registry, k.session)
                   \ PidsRegistered(registry', k.session)) \subseteq k.pidArray]_vars

\* C36: a killSessionObservers call that starts sends SIGTERM to every live
\* pid of the session; SIGKILL is delivered only by a call that ends its
\* wait, only to a pid of its pidArray that is still alive and that was
\* sent SIGTERM before; a process that has exited receives nothing.
C36_KillEscalates ==
    [][/\ \A k \in killing' \ killing :
             \A p \in k.pidArray \cap alive : "SIGTERM" \in signals'[p]
       /\ \A p \in Pids :
             ("SIGKILL" \in signals'[p] /\ "SIGKILL" \notin signals[p])
                => /\ p \in alive
                   /\ "SIGTERM" \in signals[p]
                   /\ \E k \in killing \ killing' : p \in k.pidArray
       /\ \A p \in Pids \ alive : signals'[p] = {}]_vars

\* a survivor of the wait has received SIGTERM and then SIGKILL
C36_Witness ==
    \E p \in alive :
        /\ signals[p] = {"SIGTERM", "SIGKILL"}
        /\ lastCall.op = "kill"
        /\ lastCall.session \notin DOMAIN registry

\* C37: the step of a reap cycle that prunes removes no live pid from the
\* registry, and the step that signals delivers SIGTERM only to pids the
\* scan found and no session has registered; the registry is the same
\* after it.
C37_ReapSparesRegistered ==
    [][/\ (reapState.pc = "idle" /\ reapState'.pc = "scanning")
          => \A t \in DOMAIN registry :
                \A p \in registry[t] \cap alive :
                   t \in DOMAIN registry' /\ p \in registry'[t]
       /\ (reapState.pc = "scanned" /\ reapState'.pc = "idle")
          => /\ registry' = registry
             /\ \A p \in Pids :
                   signals'[p] # signals[p]
                      => /\ p \in reapState.discovered
                         /\ p \notin getAllPids(registry)
                         /\ signals'[p] = signals[p] \cup {"SIGTERM"}]_vars

\* a cycle has signalled an orphan while a live registered pid went
\* unsignalled and stayed registered
C37_Witness ==
    /\ lastCall.op \in {"reap", "tick"}
    /\ lastCall.killed = 1
    /\ \E p \in getAllPids(registry) \cap alive : signals[p] = {}

\* a step of killSessionObservers(s) called on its own: the call starts and
\* suspends, starts and returns, or ends its wait; mine are the pids the
\* call holds for s
KillStepOf(s, mine) ==
    \/ \E k \in killing' \ killing :
          k.session = s /\ k.group = 0 /\ mine = k.pidArray
    \/ \E k \in killing \ killing' :
          k.session = s /\ k.group = 0 /\ mine = k.pidArray
    \/ /\ killing' = killing /\ alive' = alive
       /\ lastCall' # lastCall
       /\ lastCall'.op = "kill" /\ lastCall'.session = s
       /\ mine = PidsRegistered(registry, s)

\* C38: a step of killSessionObservers(s) leaves the pid set of every other
\* session as it is and delivers no signal to a pid that is not a pid of s.
C38_OtherSessionsUntouched ==
    [][\A s \in RegSessions : \A mine \in SUBSET Pids :
          KillStepOf(s, mine)
             => /\ \A t \in DOMAIN registry \ {s} :
                      t \in DOMAIN registry' /\ registry'[t] = registry[t]
                /\ \A p \in Pids \ mine : signals'[p] = signals[p]]_vars

\* session 1 was killed; the live pid of session 2 is registered and has
\* received nothing
C38_Witness ==
    /\ lastCall.op = "kill"
    /\ lastCall.session = 1
    /\ 1 \notin DOMAIN registry
    /\ 2 \in DOMAIN registry
    /\ \E p \in registry[2] \cap alive : signals[p] = {}
    /\ \E p \in Pids : signals[p] # {}

(***************************************************************************)
(* Claims about the cancellation token and the post-generator cleanup      *)
(***************************************************************************)
\* C34: the generator in the slot of a session was not born cancelled: the
\* session's token was not in the cancelled state when it was started.
C34_NeverBornCancelled ==
    \A s \in Sessions : generatorPromise[s] # 0 => ~lastGen[s].bornAborted

\* C35: a step that ends a generator run, however the run ended, leaves the
\* session's slot and current provider cleared; no slot stays filled with no
\* generator running; and a call made while the slot is clear starts a
\* generator.
C35_CleanupAlways ==
    [][\A s \in Sessions :
          /\ (genRunning'[s] # genRunning[s] /\ genRunning'[s] \subseteq genRunning[s])
                => /\ generatorPromise'[s] = 0
                   /\ currentProvider'[s] = "null"
                   /\ lastExit'[s] \in {"natural", "pending", "aborted", "failed"}
          /\ genRunning'[s] = {}
                => generatorPromise'[s] = 0 /\ currentProvider'[s] = "null"
          /\ (calls'[s] # calls[s] /\ genRunning[s] = {})
                => /\ spawnCount'[s] = spawnCount[s] + 1
                   /\ generatorPromise'[s] # 0]_vars

\* one session restarted after a cancelled run, the other after a failed
\* run, and a third run ended naturally before
C35_Witness ==
    /\ lastExit[1] = "aborted" /\ generatorPromise[1] # 0 /\ completions[1] = 2
    /\ lastExit[2] = "failed" /\ generatorPromise[2] # 0 /\ spawnCount[2] = 2

(***************************************************************************)
(* Claims about what truncation keeps                                      *)
(***************************************************************************)
\* the system message at index 0, as a list
tSystemPart == IF tHasSystem THEN <<tHistory[1]>> ELSE <<>>

\* the last k messages of the history
tSuffix(k) == SubSeq(tHistory, Len(tHistory) - k + 1, Len(tHistory))

\* the system message and the last k messages meet both caps
tFits(k) ==
    /\ Len(tSystemPart) + k <= tMaxCtx
    /\ SumTokens(tSystemPart, Len(tSystemPart))
          + SumTokens(tSuffix(k), k) <= tMaxTok

\* the history is within both caps as it is
tWithinCaps ==
    Len(tHistory) <= tMaxCtx /\ SumTokens(tHistory, Len(tHistory)) <= tMaxTok

\* the request is the system message followed by the last k messages
tKeeps(k) == tSent = conversationToOpenAIMessages(tSystemPart \o tSuffix(k))

\* C39 as stated: a history within both caps is sent unchanged; any other
\* is sent as its system message (when at index 0) followed by the longest
\* suffix of the other messages that fits both caps with it (caps taken
\* positive, as configured).
C39_LongestFittingSuffix ==
    (tQueried /\ tMaxCtx >= 1 /\ tMaxTok >= 1) =>
        IF tWithinCaps
        THEN tSent = conversationToOpenAIMessages(tHistory)
        ELSE \E k \in 0..(Len(tHistory) - Len(tSystemPart)) :
                /\ tKeeps(k)
                /\ tFits(k)
                /\ \A j \in 0..(Len(tHistory) - Len(tSystemPart)) :
                      tFits(j) => j <= k

\* C39 amended: a history within both caps is sent unchanged; any other is
\* sent as its system message (when at index 0) followed by a suffix of the
\* other messages in their order: the longest one that fits both caps with
\* the system message, and the empty one when none does; the query leaves
\* the stored history as it is.
C39_SuffixKept ==
    [][(tQueried' /\ ~tQueried) =>
          /\ tHistory' = tHistory
          /\ IF tWithinCaps
             THEN tSent' = conversationToOpenAIMessages(tHistory)
             ELSE LET k == Len(tSent') - Len(tSystemPart) IN
                  /\ k \in 0..(Len(tHistory) - Len(tSystemPart))
                  /\ tSent' = conversationToOpenAIMessages(
                                  tSystemPart \o tSuffix(k))
                  /\ k > 0 => tFits(k)
                  /\ \A j \in (k + 1)..(Len(tHistory) - Len(tSystemPart)) :
                        ~tFits(j)]_vars

\* a history over the caps, cut down to its system message and its two
\* newest messages, with older non-system messages dropped
C39_Witness ==
    /\ tQueried /\ tHasSystem /\ ~tWithinCaps
    /\ Len(tHistory) = 5
    /\ tMaxCtx = 3
    /\ tKeeps(2) /\ tFits(2)
    /\ Len(tSent) = 3

(***************************************************************************)
(* Claims about cancellation of startSession                               *)
(***************************************************************************)
\* C40: once an abort error has reached the catch block of a run, the run
\* has ended by rejecting with that error, the fallback agent has not been
\* called, with or without one configured, and as long as no new run is
\* started no pending message is taken from the iterator.
C40_AbortRethrown ==
    [][caught'.kind = "abort" =>
          /\ pc' = "idle"
          /\ outcome' = "rejected"
          /\ thrown' = AbortError
          /\ fallbackCalls' = 0
          /\ (caught.kind = "abort" /\ runs' = runs)
                => /\ consumed' = consumed
                   /\ Len(pending') >= Len(pending)]_vars

\* a run with a fallback agent configured was cancelled after its first
\* message, with another message still pending
C40_Witness ==
    /\ RunEnded /\ caught = AbortError /\ fallbackAgent
    /\ outcome = "rejected" /\ thrown = AbortError
    /\ fallbackCalls = 0
    /\ Len(consumed) >= 1
    /\ pending # <<>>

====
